---------------------------- MODULE Spec2Model ----------------------------
(***************************************************************************)
(* Model of scvelo/tools/dynamical_model_utils.py: the kinetic model of    *)
(* one gene (unspliced/spliced abundance on an induction and a repression  *)
(* branch), the inverse-time solver, the divergence evaluator and the      *)
(* BaseDynamics controller.                                                *)
(*                                                                         *)
(* Numbers.  A numpy float is modelled as a fixed-point number with        *)
(* FracBits fractional bits (the integer x stands for x / SCALE), rounded  *)
(* to nearest after every multiplication and division, together with the  *)
(* three IEEE special values PInf, NInf and NaN, which follow the IEEE     *)
(* rules (1/0 = inf, 0/0 = nan, inf * 0 = nan, nan propagates, every       *)
(* comparison with nan is false).  Time is measured in units of ln 2, so   *)
(* that exp(-beta*tau) is 2^(-beta*tau) and the natural logarithm of the   *)
(* solver is the base-2 logarithm; between integer exponents exp and log   *)
(* are their piecewise linear interpolants, which are inverse to each      *)
(* other, monotone, and exact at the integer exponents.                    *)
(*                                                                         *)
(* Arrays.  A numpy array is a sequence (one entry per cell).  An argument *)
(* array that the code updates in place (x[mask] = ..., x *= ...) is a     *)
(* variable of the model that the call rewrites.                           *)
(***************************************************************************)
EXTENDS Integers, Sequences, FiniteSets

(* ------------------------------ bounds -------------------------------- *)
FracBits == 4
MaxCells == 2

SCALE == 2 ^ FracBits
ONE   == SCALE
HALF  == SCALE \div 2
BIG   == 2 ^ 24
PInf  == BIG
NInf  == 0 - BIG
NaN   == BIG + 1
None  == BIG + 2          \* Python's None for an optional numeric argument

(* ------------------------- IEEE-like arithmetic ------------------------ *)
IsNaN(x) == x = NaN
IsInf(x) == x = PInf \/ x = NInf
IsNum(x) == x > NInf /\ x < PInf
Abs(x)   == IF x < 0 THEN 0 - x ELSE x
Sgn(x)   == IF x < 0 THEN 0 - 1 ELSE IF x > 0 THEN 1 ELSE 0
Sat(x)   == IF x >= BIG THEN PInf ELSE IF x <= 0 - BIG THEN NInf ELSE x
RoundDiv(n, d) == Sgn(n) * Sgn(d) * ((2 * Abs(n) + Abs(d)) \div (2 * Abs(d)))

\* the IEEE rules where an operand is nan or infinite
fadd_special(a, b) ==
    IF IsNaN(a) \/ IsNaN(b) THEN NaN
    ELSE IF IsInf(a) /\ IsInf(b) THEN (IF a = b THEN a ELSE NaN)
    ELSE IF IsInf(a) THEN a ELSE b
fmul_special(a, b) ==
    IF IsNaN(a) \/ IsNaN(b) THEN NaN
    ELSE IF a = 0 \/ b = 0 THEN NaN
    ELSE IF Sgn(a) * Sgn(b) > 0 THEN PInf ELSE NInf
fdiv_special(a, b) ==
    IF IsNaN(a) \/ IsNaN(b) THEN NaN
    ELSE IF IsInf(a) /\ IsInf(b) THEN NaN
    ELSE IF IsInf(a) THEN (IF Sgn(a) * (IF b < 0 THEN 0 - 1 ELSE 1) > 0 THEN PInf ELSE NInf)
    ELSE 0

fneg(a) == IF a = NaN THEN NaN ELSE 0 - a
fadd(a, b) ==
    IF a < BIG /\ b < BIG /\ a > NInf /\ b > NInf THEN Sat(a + b) ELSE fadd_special(a, b)
fsub(a, b) == fadd(a, fneg(b))
fmul(a, b) ==
    IF a < BIG /\ b < BIG /\ a > NInf /\ b > NInf
    THEN Sat((2 * a * b + SCALE) \div (2 * SCALE))
    ELSE fmul_special(a, b)
fdiv(a, b) ==
    IF a < BIG /\ b < BIG /\ a > NInf /\ b > NInf
    THEN (IF b > 0 THEN Sat((2 * a * SCALE + b) \div (2 * b))
          ELSE IF b < 0 THEN Sat((0 - b - 2 * a * SCALE) \div (0 - 2 * b))
          ELSE IF a = 0 THEN NaN ELSE IF a > 0 THEN PInf ELSE NInf)
    ELSE fdiv_special(a, b)

\* comparisons: false as soon as one side is nan
flt(a, b) == ~IsNaN(a) /\ ~IsNaN(b) /\ a < b
fle(a, b) == ~IsNaN(a) /\ ~IsNaN(b) /\ a <= b
fgt(a, b) == flt(b, a)
fge(a, b) == fle(b, a)
\* a boolean used as a number (True is 1.0, False is 0.0)
B2F(p) == IF p THEN ONE ELSE 0
\* a boolean used as an integer (np.array(..., dtype=int))
B2I(p) == IF p THEN 1 ELSE 0

\* np.minimum / np.maximum of two values (nan propagates)
fmin2(a, b) == IF IsNaN(a) \/ IsNaN(b) THEN NaN ELSE IF a <= b THEN a ELSE b
fmax2(a, b) == IF IsNaN(a) \/ IsNaN(b) THEN NaN ELSE IF a >= b THEN a ELSE b
\* np.clip(x, lo, hi) = minimum(maximum(x, lo), hi); hi = None leaves the top open
clip(x, lo, hi) == IF hi = None THEN fmax2(x, lo) ELSE fmin2(fmax2(x, lo), hi)

\* np.sqrt: nan for a negative argument
fsqrt(x) ==
    IF IsNaN(x) \/ x < 0 THEN NaN
    ELSE IF x = PInf THEN PInf
    ELSE CHOOSE r \in 0..(x * SCALE + 1) : r * r <= x * SCALE /\ (r + 1) * (r + 1) > x * SCALE

\* 2^x for a fixed-point x (np.exp with time in units of ln 2)
exp(x) ==
    IF IsNaN(x) THEN NaN
    ELSE IF x = PInf THEN PInf
    ELSE IF x = NInf THEN 0
    ELSE IF x <= 0
         THEN LET k == (0 - x) \div SCALE
                  f == (0 - x) % SCALE
              IN  IF k > FracBits + 1 THEN 0
                  ELSE RoundDiv(2 * SCALE - f, 2 ^ (k + 1))
         ELSE LET k == x \div SCALE
                  f == x % SCALE
              IN  IF k > 20 - FracBits THEN PInf ELSE Sat((SCALE + f) * 2 ^ k)

\* log2 of a fixed-point x (np.log with time in units of ln 2)
RECURSIVE Log2Pos(_, _)
Log2Pos(x, k) ==   \* x > 0: -(k + f) with x = 2^-k * (1 - f/2), or k' + f' above 1
    IF x > SCALE THEN
        (IF x >= 2 * SCALE THEN ONE + Log2Pos(x \div 2, k) ELSE x - SCALE)
    ELSE IF 2 * x > SCALE \/ x = SCALE THEN 0 - (k * SCALE + 2 * (SCALE - x))
    ELSE Log2Pos(2 * x, k + 1)
nplog(x) ==
    IF IsNaN(x) \/ x < 0 THEN NaN
    ELSE IF x = 0 THEN NInf
    ELSE IF x = PInf THEN PInf
    ELSE Log2Pos(x, 0)


(* ----------------------------- arrays --------------------------------- *)
\* Python's None for an optional array argument (the arrays themselves are
\* never empty)
NoArr == <<>>
Idx(a) == 1..Len(a)
\* an array built element by element, as a sequence that is evaluated once
Arr(f) == f \o <<>>
RECURSIVE SumSeq(_)
SumSeq(a) == IF a = <<>> THEN 0 ELSE fadd(Head(a), SumSeq(Tail(a)))
\* np.any / np.all of a boolean array
npany(m) == \E i \in Idx(m) : m[i]
\* np.max / np.min of an array (nan propagates)
RECURSIVE MaxSeq(_)
MaxSeq(a) == IF Len(a) = 1 THEN a[1] ELSE fmax2(Head(a), MaxSeq(Tail(a)))
RECURSIVE MinSeq(_)
MinSeq(a) == IF Len(a) = 1 THEN a[1] ELSE fmin2(Head(a), MinSeq(Tail(a)))
\* a[mask]: the entries of a at which the mask holds, in order
RECURSIVE Select(_, _)
Select(a, m) ==
    IF a = <<>> THEN <<>>
    ELSE (IF Head(m) THEN <<Head(a)>> ELSE <<>>) \o Select(Tail(a), Tail(m))

(* -------------------------- helper functions -------------------------- *)
\* log(clip(x, eps, 1 - eps)) with eps = 1e-6: log(eps) = -19.93 (in units of
\* ln 2) is representable, eps itself is below the resolution: every x < eps
\* that the model can hold is x <= 0, and log(1 - eps) rounds to 0.
LogEps == 0 - RoundDiv(1993 * SCALE, 100)
log(x) ==
    IF IsNaN(x) THEN NaN
    ELSE IF x <= 0 THEN LogEps
    ELSE IF x >= ONE THEN 0
    ELSE nplog(x)

\* inv(x): 1 / x * (x != 0) on a numpy value (warnings are silenced, nothing raises)
inv(x) == fmul(fdiv(ONE, x), B2F(x # 0))
\* inv(x) on a Python float: 1 / 0.0 raises ZeroDivisionError, which no
\* warnings filter catches
Raised == BIG + 3
inv_pyfloat(x) == IF x = 0 THEN Raised ELSE fmul(fdiv(ONE, x), B2F(x # 0))

(* ------------------------ dynamics delineation ------------------------ *)
Unspliced1(u0, alpha, beta, expu) ==
    fadd(fmul(u0, expu), fmul(fdiv(alpha, beta), fsub(ONE, expu)))
unspliced(tau, u0, alpha, beta) == Unspliced1(u0, alpha, beta, exp(fneg(fmul(beta, tau))))

Spliced1(s0, alpha, gamma, c, expu, exps) ==
    fadd(fadd(fmul(s0, exps), fmul(fdiv(alpha, gamma), fsub(ONE, exps))),
         fmul(c, fsub(exps, expu)))
spliced(tau, s0, u0, alpha, beta, gamma) ==
    Spliced1(s0, alpha, gamma, fmul(fsub(alpha, fmul(u0, beta)), inv(fsub(gamma, beta))),
             exp(fneg(fmul(beta, tau))), exp(fneg(fmul(gamma, tau))))

\* mRNA returns the pair (u, s)
MRNA1(u0, s0, alpha, beta, gamma, expu, exps) ==
    <<fadd(fmul(u0, expu), fmul(fdiv(alpha, beta), fsub(ONE, expu))),
      fadd(fadd(fmul(s0, exps), fmul(fdiv(alpha, gamma), fsub(ONE, exps))),
           fmul(fmul(fsub(alpha, fmul(u0, beta)), inv(fsub(gamma, beta))),
                fsub(exps, expu)))>>
mRNA(tau, u0, s0, alpha, beta, gamma) ==
    MRNA1(u0, s0, alpha, beta, gamma, exp(fneg(fmul(beta, tau))), exp(fneg(fmul(gamma, tau))))

\* the two inversion formulas of tau_inv, for one element
TauInvUS2(u, s, u0, s0, gamma, beta_, xinf) ==
    fmul(fdiv(0 - ONE, gamma),
         log(fdiv(fsub(fsub(s, fmul(beta_, u)), xinf),
                  fsub(fsub(s0, fmul(beta_, u0)), xinf))))
TauInvUS1(u, s, u0, s0, alpha, beta, gamma, beta_) ==
    TauInvUS2(u, s, u0, s0, gamma, beta_,
              fsub(fdiv(alpha, gamma), fmul(beta_, fdiv(alpha, beta))))
tau_inv_us(u, s, u0, s0, alpha, beta, gamma) ==
    TauInvUS1(u, s, u0, s0, alpha, beta, gamma, fmul(beta, inv(fsub(gamma, beta))))
TauInvU1(u, u0, beta, uinf) ==
    fmul(fdiv(0 - ONE, beta), log(fdiv(fsub(u, uinf), fsub(u0, uinf))))
tau_inv_u(u, u0, alpha, beta) == TauInvU1(u, u0, beta, fdiv(alpha, beta))

\* (variant) the mask with the comparison turned round
InvU_swapped(beta, gamma, n) ==
    Arr([i \in 1..n |-> IF gamma = NoArr THEN TRUE ELSE flt(gamma[i], beta)])
\* the masks of tau_inv: gamma is an array (one rate per element) or NoArr
InvU(beta, gamma, n) == Arr([i \in 1..n |-> IF gamma = NoArr THEN TRUE ELSE fge(gamma[i], beta)])
InvUS1(inv_u) == Arr([i \in Idx(inv_u) |-> ~inv_u[i]])
InvUS(beta, gamma, n) == InvUS1(InvU(beta, gamma, n))

\* tau_inv(u, s, u0, s0, alpha, beta, gamma) on an array u; s and gamma may
\* be NoArr.  tau0 is the array of line 136 and tau_u that of line 140, each
\* computed only where the code computes it
TauInv2(n, any_invu, any_invus, inv_u, inv_us, tau0, tau_u) ==
    IF any_invu
    THEN (IF any_invus
          THEN Arr([i \in 1..n |-> fadd(fmul(tau_u[i], B2F(inv_u[i])),
                                    fmul(tau0[i], B2F(inv_us[i])))])
          ELSE tau_u)
    ELSE tau0
TauInv1(u, s, u0, s0, alpha, beta, gamma, inv_u, inv_us) ==
    TauInv2(Len(u), npany(inv_u) \/ s = NoArr, npany(inv_us) /\ s # NoArr, inv_u, inv_us,
            Arr([i \in Idx(u) |-> tau_inv_us(u[i], s[i], u0, s0, alpha, beta, gamma[i])]),
            Arr([i \in Idx(u) |-> tau_inv_u(u[i], u0, alpha, beta)]))
tau_inv(u, s, u0, s0, alpha, beta, gamma) ==
    TauInv1(u, s, u0, s0, alpha, beta, gamma, InvU(beta, gamma, Len(u)),
            InvUS(beta, gamma, Len(u)))

\* np.sort: ascending, nan last
RECURSIVE Insert(_, _)
Insert(x, a) ==
    IF a = <<>> THEN <<x>>
    ELSE IF x <= Head(a) THEN <<x>> \o a
    ELSE <<Head(a)>> \o Insert(x, Tail(a))
RECURSIVE npsort(_)
npsort(a) == IF a = <<>> THEN <<>> ELSE Insert(Head(a), npsort(Tail(a)))

\* np.argmin of a column of values (0-based): the first nan if there is one,
\* else the first minimum
ArgMin(col) ==
    LET nans == {k \in Idx(col) : IsNaN(col[k])}
        firstOf(S) == CHOOSE k \in S : \A j \in S : k <= j
    IN  IF nans # {} THEN firstOf(nans) - 1
        ELSE firstOf({k \in Idx(col) : \A j \in Idx(col) : col[k] <= col[j]}) - 1

\* a[mask] = vals: the entries of a at which the mask holds, replaced in order
RECURSIVE Scatter(_, _, _)
Scatter(a, m, vals) ==
    IF a = <<>> THEN <<>>
    ELSE IF Head(m) THEN <<Head(vals)>> \o Scatter(Tail(a), Tail(m), Tail(vals))
    ELSE <<Head(a)>> \o Scatter(Tail(a), Tail(m), vals)

\* adjust_increments(tau) on a non-empty array; returns a new array
\* (variant) line 121 selecting tau > ti
AdjustIncrements4_strict(tau, tau_ord, dtau, idx) ==
    Arr([j \in Idx(tau) |->
        fsub(tau[j], SumSeq(Arr([i \in Idx(tau) |->
                 IF i \in idx /\ fgt(tau[j], tau_ord[i]) THEN dtau[i] ELSE 0])))])
AdjustIncrements4(tau, tau_ord, dtau, idx) ==
    Arr([j \in Idx(tau) |->
        IF \E i \in idx : fge(tau[j], tau_ord[i])
        THEN fsub(tau[j], SumSeq(Arr([i \in Idx(tau) |->
                 IF i \in idx /\ fge(tau[j], tau_ord[i]) THEN dtau[i] ELSE 0])))
        ELSE tau[j]])
AdjustIncrements3(tau, tau_ord, dtau, m_dtau) ==
    AdjustIncrements4(tau, tau_ord, dtau,
        {i \in Idx(tau) : fgt(dtau[i], fadd(m_dtau, fmul(3 * ONE, fsqrt(m_dtau))))})
AdjustIncrements2(tau, tau_ord, dtau) ==
    AdjustIncrements3(tau, tau_ord, dtau,
        fmax2(fmax2(fdiv(SumSeq(dtau), Len(tau) * ONE), fdiv(MaxSeq(tau), Len(tau) * ONE)), 0))
AdjustIncrements1(tau, tau_ord) ==
    AdjustIncrements2(tau, tau_ord,
        Arr([i \in Idx(tau) |-> fsub(tau_ord[i], IF i = 1 THEN 0 ELSE tau_ord[i - 1])]))
adjust_increments(tau) == AdjustIncrements1(tau, npsort(tau))
\* line 109: tau_new = tau * 1. is a new array and line 121 writes tau_new only,
\* so the array of the caller holds after the call what it held before
CallerArray(tau) == tau

\* assign_tau, analytic branch (assignment_mode is None): the fresh arrays
\* tau and tau_, or an error: np.max of the empty selection tau_[s > 0] raises
AssignTau2(t_, tau, tau_, pos) ==
    IF ~npany(pos) THEN [raised |-> TRUE]
    ELSE [raised |-> FALSE, tau |-> Arr([i \in Idx(tau) |-> clip(tau[i], 0, t_)]),
          tau_ |-> Arr([i \in Idx(tau_) |-> clip(tau_[i], 0, MaxSeq(Select(tau_, pos)))])]
AssignTau1(u, s, alpha, beta, garr, t_, u0_, s0_) ==
    AssignTau2(t_, tau_inv(u, s, 0, 0, alpha, beta, garr),
               tau_inv(u, s, u0_, s0_, 0, beta, garr),
               Arr([i \in Idx(u) |-> fgt(s[i], 0)]))
assign_tau(u, s, alpha, beta, gamma, t_, u0_, s0_) ==
    AssignTau1(u, s, alpha, beta, Arr([i \in Idx(u) |-> gamma]), t_, u0_, s0_)

(* ------------------------- compute_divergence -------------------------- *)
(* The keyword arguments of a call are a record a: u, s (arrays), alpha,   *)
(* beta, gamma, scaling, t_, std_u, std_s (numbers), u0_, s0_ (numbers or  *)
(* None), tau, tau_ (arrays or NoArr), fit_steady_states,                  *)
(* constraint_time_increments (booleans), connectivities (a matrix, one    *)
(* row per cell, or NoArr).  var_scale keeps its default False and         *)
(* assignment_mode its default None: no caller in the file sets them.      *)
(* A value computed once and used several times is handed on as a          *)
(* parameter of the operator that models the next lines.                   *)

Sq(x) == fmul(x, x)

\* lines 184-185: (u0_, s0_)
CDStart0(a) ==
    IF a.u0_ = None \/ a.s0_ = None
    THEN mRNA(a.t_, 0, 0, a.alpha, a.beta, a.gamma)
    ELSE <<a.u0_, a.s0_>>
\* lines 186-189: the arrays tau and tau_ the call works on (fresh ones from
\* assign_tau at, or the caller's), and std_u /= scaling
CDStart1(a, st0, fresh, at) ==
    IF fresh /\ at.raised THEN [raised |-> TRUE]
    ELSE [raised |-> FALSE, u0_ |-> st0[1], s0_ |-> st0[2], fresh |-> fresh,
          tau   |-> IF fresh THEN at.tau ELSE a.tau,
          tau_  |-> IF fresh THEN at.tau_ ELSE a.tau_,
          std_u |-> fdiv(a.std_u, a.scaling)]
CDStart2(a, st0) ==
    CDStart1(a, st0, a.tau = NoArr \/ a.tau_ = NoArr \/ a.t_ = None,
             assign_tau(a.u, a.s, a.alpha, a.beta, a.gamma, a.t_, st0[1], st0[2]))
CDStart(a) == CDStart2(a, CDStart0(a))

\* lines 193-199 and 206-213 for one cell: the modeled states on = (ut, st)
\* and off = (ut_, st_), and the distances to them
CellDist(u, s, on, off, std_u, std_s) ==
    [ut |-> on[1], st |-> on[2], ut_ |-> off[1], st_ |-> off[2],
     distx  |-> fadd(Sq(fdiv(fsub(u, on[1]), std_u)), Sq(fdiv(fsub(s, on[2]), std_s))),
     distx_ |-> fadd(Sq(fdiv(fsub(u, off[1]), std_u)), Sq(fdiv(fsub(s, off[2]), std_s)))]
CDDist(a, c, tau, tau_) ==
    Arr([i \in Idx(a.u) |->
        CellDist(a.u[i], a.s[i],
                 mRNA(tau[i], 0, 0, a.alpha, a.beta, a.gamma),
                 mRNA(tau_[i], c.u0_, c.s0_, 0, a.beta, a.gamma),
                 c.std_u, a.std_s)])

\* np.argmin(rows, axis=0): for every cell the index of its smallest row
ArgMinRows(rows) ==
    Arr([i \in Idx(rows[1]) |-> ArgMin(Arr([k \in Idx(rows) |-> rows[k][i]]))])

\* lines 201-203: tau[on] = adjust_increments(tau[on]), tau_[off] likewise;
\* the arrays are written in place
CDAdjust1(tau, tau_, on, off) ==
    [tau  |-> IF npany(on) THEN Scatter(tau, on, adjust_increments(Select(tau, on))) ELSE tau,
     tau_ |-> IF npany(off) THEN Scatter(tau_, off, adjust_increments(Select(tau_, off)))
              ELSE tau_]
\* line 199: o = argmin([distx_, distx])
CDAdjust0(tau, tau_, d) ==
    CDAdjust1(tau, tau_,
              Arr([i \in Idx(d) |-> ArgMin(<<d[i].distx_, d[i].distx>>) = 1]),
              Arr([i \in Idx(d) |-> ArgMin(<<d[i].distx_, d[i].distx>>) = 0]))
\* lines 192-203
CDAdjust(a, c) ==
    IF ~a.constraint_time_increments THEN [tau |-> c.tau, tau_ |-> c.tau_]
    ELSE CDAdjust0(c.tau, c.tau_, CDDist(a, c, c.tau, c.tau_))

\* lines 226-227 (varu = vars = 1)
DistxSteady(a, c, i) ==
    fadd(fdiv(Sq(fdiv(fsub(a.u[i], fdiv(a.alpha, a.beta)), c.std_u)), ONE),
         fdiv(Sq(fdiv(fsub(a.s[i], fdiv(a.alpha, a.gamma)), a.std_s)), ONE))
DistxSteady_(a, c, i) ==
    fadd(fdiv(Sq(fdiv(a.u[i], c.std_u)), ONE), fdiv(Sq(fdiv(a.s[i], a.std_s)), ONE))
\* (variant) the steady states always among the candidates
CDCandidates_always4(a, c, d) ==
    <<Arr([i \in Idx(d) |-> d[i].distx_]), Arr([i \in Idx(d) |-> d[i].distx]),
      Arr([i \in Idx(d) |-> DistxSteady_(a, c, i)]), Arr([i \in Idx(d) |-> DistxSteady(a, c, i)])>>
\* lines 225-230: the rows of candidate states
CDCandidates(a, c, d) ==
    IF a.fit_steady_states
    THEN <<Arr([i \in Idx(d) |-> d[i].distx_]), Arr([i \in Idx(d) |-> d[i].distx]),
           Arr([i \in Idx(d) |-> DistxSteady_(a, c, i)]), Arr([i \in Idx(d) |-> DistxSteady(a, c, i)])>>
    ELSE <<Arr([i \in Idx(d) |-> d[i].distx_]), Arr([i \in Idx(d) |-> d[i].distx])>>

\* lines 234-238: connectivities.dot(res.T).T
CDSmooth(a, rows) ==
    IF a.connectivities = NoArr THEN rows
    ELSE Arr([k \in Idx(rows) |->
            Arr([i \in Idx(rows[k]) |->
                SumSeq(Arr([j \in Idx(rows[k]) |-> fmul(a.connectivities[i][j], rows[k][j])]))])])

\* everything up to the dispatch on mode: the arrays tau, tau_ as adjusted,
\* the modeled states, and res
CDCommon2(a, c, adj, d) ==
    [raised |-> FALSE, fresh |-> c.fresh, tau |-> adj.tau, tau_ |-> adj.tau_,
     ut  |-> Arr([i \in Idx(d) |-> d[i].ut]),  st  |-> Arr([i \in Idx(d) |-> d[i].st]),
     ut_ |-> Arr([i \in Idx(d) |-> d[i].ut_]), st_ |-> Arr([i \in Idx(d) |-> d[i].st_]),
     res |-> CDSmooth(a, CDCandidates(a, c, d))]
CDCommon1(a, c, adj) == CDCommon2(a, c, adj, CDDist(a, c, adj.tau, adj.tau_))
CDCommon0(a, c) == IF c.raised THEN [raised |-> TRUE] ELSE CDCommon1(a, c, CDAdjust(a, c))
CDCommon(a) == CDCommon0(a, CDStart(a))

\* (variant) a steady-state match collapsed to the other branch
Collapse_swapped(o) == Arr([i \in Idx(o) |-> IF o[i] = 2 THEN 0 ELSE IF o[i] = 3 THEN 1 ELSE o[i]])
\* lines 292-293: o[o == 2] = 1, o[o == 3] = 0
Collapse(o) == Arr([i \in Idx(o) |-> IF o[i] = 2 THEN 1 ELSE IF o[i] = 3 THEN 0 ELSE o[i]])

\* (variant) tau_ left as it is
MaskTau__kept(tau_, o) == tau_
\* line 289: tau_ *= (o == 0)
MaskTau_(tau_, o) == Arr([i \in Idx(o) |-> fmul(tau_[i], B2F(o[i] = 0))])
\* line 290: tau *= (o == 1)
MaskTau(tau, o) == Arr([i \in Idx(o) |-> fmul(tau[i], B2F(o[i] = 1))])

\* line 295: t = tau * (o == 1) + (tau_ + t_) * (o == 0)
AbsTime(tau, tau_, t_, o) ==
    Arr([i \in Idx(o) |-> fadd(fmul(tau[i], B2F(o[i] = 1)),
                           fmul(fadd(tau_[i], t_), B2F(o[i] = 0)))])

\* lines 281-296, mode 'assign_timepoints'.  tau and tau_ of the result are
\* the arrays as the call leaves them: the caller's own arrays unless fresh;
\* sel is o as line 282 computes it, before lines 292-293 rewrite it
AssignTimepoints2(m, t_, tau, tau_, sel, o) ==
    [raised |-> FALSE, mode |-> "assign_timepoints", fresh |-> m.fresh, sel |-> sel,
     t |-> AbsTime(tau, tau_, t_, o), tau |-> tau, o |-> o, tau_ |-> tau_]
AssignTimepoints1(m, t_, o) ==
    AssignTimepoints2(m, t_, MaskTau(m.tau, o), MaskTau_(m.tau_, o), o, Collapse(o))
AssignTimepoints0(m, t_) ==
    IF m.raised THEN [raised |-> TRUE, mode |-> "assign_timepoints"]
    ELSE AssignTimepoints1(m, t_, ArgMinRows(m.res))
ModeAssignTimepoints(a) == AssignTimepoints0(CDCommon(a), a.t_)

\* lines 273-274, mode 'hard_state'
HardState0(m) ==
    IF m.raised THEN [raised |-> TRUE, mode |-> "hard_state"]
    ELSE [raised |-> FALSE, mode |-> "hard_state", fresh |-> m.fresh,
          res |-> ArgMinRows(m.res), tau |-> m.tau, tau_ |-> m.tau_]
ModeHardState(a) == HardState0(CDCommon(a))

\* lines 263-266, mode 'hard_eval': o_, o = o[0], o[1] are the argmin of the
\* first and of the second cell (an IndexError with one cell); np.array of
\* two numbers and two arrays is a ragged list: a ValueError from numpy 1.24
\* on, an array of objects before (objarr)
HardEval1(m, o_, o) ==
    [raised |-> FALSE, mode |-> "hard_eval", fresh |-> m.fresh, o_ |-> o_, o |-> o,
     ut |-> Arr([i \in Idx(m.ut) |-> fadd(fmul(m.ut[i], o * ONE), fmul(m.ut_[i], o_ * ONE))]),
     st |-> Arr([i \in Idx(m.st) |-> fadd(fmul(m.st[i], o * ONE), fmul(m.st_[i], o_ * ONE))]),
     tau |-> m.tau, tau_ |-> m.tau_]
HardEval0(m, objarr) ==
    IF m.raised THEN [raised |-> TRUE, mode |-> "hard_eval"]
    ELSE IF Len(m.tau) < 2 \/ ~objarr
    THEN [raised |-> TRUE, mode |-> "hard_eval", fresh |-> m.fresh,
          tau |-> m.tau, tau_ |-> m.tau_]
    ELSE HardEval1(m, ArgMinRows(m.res)[1], ArgMinRows(m.res)[2])
ModeHardEval(a, objarr) == HardEval0(CDCommon(a), objarr)

(* ---------------------------- BaseDynamics ---------------------------- *)
(* The controller object is a record self.  Its parameters alpha, beta,   *)
(* gamma, scaling, t_, u0_, s0_, std_u, std_s are numpy float64 scalars   *)
(* (None before load_pars), its arrays u, s, weights (booleans), t, tau,  *)
(* o and pars are numpy arrays (NoArr before load_pars).  refit_time is   *)
(* "True", "False", "array" (a time array, kept in refit_array) or        *)
(* "column" (the name of a column of adata.obs).  The arguments of a      *)
(* query are a record q: alpha, beta, gamma, scaling, t_, u0_, s0_,       *)
(* rescale_factor (numbers or None), t (an array or NoArr), refit_time    *)
(* ("None", "True" or "False").  np.log and np.exp of the likelihood are  *)
(* the base-2 pair nplog and exp of the model.                            *)
Perc == 99

npmean(a) == fdiv(SumSeq(a), Len(a) * ONE)
\* np.std: nan for an empty array
npstd1(a, mean) == fsqrt(npmean(Arr([i \in Idx(a) |-> Sq(fsub(a[i], mean))])))
npstd(a) == npstd1(a, npmean(a))

\* v < np.percentile(x, perc) for a non-empty array x of numbers: the
\* percentile interpolates linearly between two order statistics
BelowPercentile1(v, xs, pos) ==
    100 * v < 100 * xs[pos \div 100 + 1]
              + (pos % 100) * (xs[IF pos \div 100 + 1 < Len(xs) THEN pos \div 100 + 2
                                  ELSE pos \div 100 + 1] - xs[pos \div 100 + 1])
\* (of an empty x the percentile, where it does not raise, is nan, and v < nan
\* is False)
BelowPercentile(v, x, perc) ==
    IF x = <<>> THEN FALSE ELSE BelowPercentile1(v, npsort(x), perc * (Len(x) - 1))

\* lines 364-371
InitializeWeights2(u, s, w) ==
    [weights |-> w, std_u |-> npstd(Select(u, w)), std_s |-> npstd(Select(s, w))]
InitializeWeights1(u, s, nonzero, sn, un) ==
    InitializeWeights2(u, s, Arr([i \in Idx(u) |->
        BelowPercentile(s[i], sn, Perc) /\ BelowPercentile(u[i], un, Perc) /\ nonzero[i]]))
InitializeWeights0(u, s, nonzero) ==
    InitializeWeights1(u, s, nonzero, Select(s, nonzero), Select(u, nonzero))
initialize_weights(u, s) ==
    InitializeWeights0(u, s, Arr([i \in Idx(u) |-> s[i] > 0 /\ u[i] > 0]))

\* lines 329-362: the object after construction on data with a cell that
\* has both counts positive (np.percentile needs one)
BaseDynamics1(u, s, refit_time, refit_array, fit_steady_states, connectivities, w) ==
    [u |-> u, s |-> s, alpha |-> None, beta |-> None, gamma |-> None, scaling |-> None,
     t_ |-> None, alpha_ |-> None, u0 |-> None, s0 |-> None, u0_ |-> None, s0_ |-> None,
     weights |-> w.weights, std_u |-> w.std_u, std_s |-> w.std_s, pars |-> NoArr,
     t |-> NoArr, tau |-> NoArr, o |-> NoArr, loss |-> NoArr,
     refit_time |-> refit_time, refit_array |-> refit_array, steady_state_ratio |-> None,
     fit_steady_states |-> fit_steady_states, connectivities |-> connectivities]
BaseDynamics(u, s, refit_time, refit_array, fit_steady_states, connectivities) ==
    BaseDynamics1(u, s, refit_time, refit_array, fit_steady_states, connectivities,
                  initialize_weights(u, s))

\* lines 305-322 (u0 = s0 = alpha_ = 0, sorted = False): the arrays tau,
\* alpha, u0, s0
Vectorize1(t, t_, alpha, o, u0_, s0_) ==
    [tau   |-> Arr([i \in Idx(t) |-> fadd(fmul(t[i], o[i] * ONE),
                                          fmul(fsub(t[i], t_), (1 - o[i]) * ONE))]),
     alpha |-> Arr([i \in Idx(t) |-> fadd(fmul(alpha, o[i] * ONE), fmul(0, (1 - o[i]) * ONE))]),
     u0    |-> Arr([i \in Idx(t) |-> fadd(fmul(0, o[i] * ONE), fmul(u0_, (1 - o[i]) * ONE))]),
     s0    |-> Arr([i \in Idx(t) |-> fadd(fmul(0, o[i] * ONE), fmul(s0_, (1 - o[i]) * ONE))])]
vectorize(t, t_, alpha, beta, gamma) ==
    Vectorize1(t, t_, alpha, Arr([i \in Idx(t) |-> B2I(flt(t[i], t_))]),
               unspliced(t_, 0, alpha, beta),
               spliced(t_, 0, 0, alpha, beta, IF gamma # None THEN gamma ELSE fdiv(beta, 2 * ONE)))

\* lines 401-406: weighted is False, True or the string 'dynamical'
GetReads1(self, u, weighted) ==
    IF weighted # "False"
    THEN [u |-> Select(u, self.weights), s |-> Select(self.s, self.weights)]
    ELSE [u |-> u, s |-> self.s]
get_reads(self, scaling, weighted) ==
    GetReads1(self, Arr([i \in Idx(self.u) |->
                  fdiv(self.u[i], IF scaling = None THEN self.scaling ELSE scaling)]), weighted)

\* tau_inv on scalars (line 414, line 445); s0_ may be None
TauInvScalar(u0_, s0_, alpha, beta, gamma) ==
    tau_inv(<<u0_>>, IF s0_ = None THEN NoArr ELSE <<s0_>>, 0, 0, alpha, beta, <<gamma>>)[1]

\* lines 408-415
GetVars1(self, q, alpha, beta, gamma, scaling) ==
    [alpha |-> alpha, beta |-> beta, gamma |-> gamma, scaling |-> scaling,
     t_ |-> IF q.t_ = None \/ q.t_ = 0
            THEN (IF q.u0_ = None THEN self.t_
                  ELSE TauInvScalar(q.u0_, q.s0_, alpha, beta, gamma))
            ELSE q.t_]
get_vars(self, q) ==
    GetVars1(self, q,
             IF q.alpha = None THEN self.alpha ELSE q.alpha,
             IF q.beta = None THEN self.beta ELSE q.beta,
             IF q.gamma = None THEN self.gamma ELSE q.gamma,
             IF q.scaling = None THEN self.scaling ELSE q.scaling)

\* lines 417-422: the arguments handed to compute_divergence.  u is the new
\* array self.u / scaling, tau and tau_ are not passed on
GetDivergenceArgs1(self, q, v) ==
    [u |-> Arr([i \in Idx(self.u) |-> fdiv(self.u[i], v.scaling)]), s |-> self.s,
     alpha |-> v.alpha, beta |-> v.beta, gamma |-> v.gamma, scaling |-> v.scaling,
     t_ |-> v.t_, u0_ |-> q.u0_, s0_ |-> q.s0_, tau |-> NoArr, tau_ |-> NoArr,
     std_u |-> self.std_u, std_s |-> self.std_s,
     fit_steady_states |-> self.fit_steady_states,
     connectivities |-> self.connectivities, constraint_time_increments |-> TRUE]
GetDivergenceArgs(self, q) == GetDivergenceArgs1(self, q, get_vars(self, q))
\* the modes a BaseDynamics object asks for
ComputeDivergence1(m, t_, mode) ==
    IF mode = "assign_timepoints" THEN AssignTimepoints0(m, t_) ELSE HardState0(m)
ComputeDivergence(a, mode) == ComputeDivergence1(CDCommon(a), a.t_, mode)
get_divergence(self, q, mode) == ComputeDivergence(GetDivergenceArgs(self, q), mode)

\* `x *= y` and `x /= y` on a name bound to a stored parameter.  A numpy
\* float64 is immutable: the statement binds the name to a new number and
\* the stored one stays.  (variant) the stored number updated in place
InPlaceOnScalar_mutable(self, field, stored, v) ==
    IF stored THEN [self EXCEPT ![field] = v] ELSE self
InPlaceOnScalar(self, field, stored, v) == self

\* lines 435-445: the candidate after rescaling, rf = rescale_factor * gamma / beta
Rescaled1(q, v, u0_, s0_, rf) ==
    [q EXCEPT !.alpha = v.alpha, !.gamma = v.gamma,
              !.scaling = fmul(v.scaling, rf), !.beta = fmul(v.beta, rf),
              !.u0_ = fdiv(u0_, rf), !.s0_ = s0_,
              !.t_ = TauInvScalar(fdiv(u0_, rf), s0_, v.alpha, fmul(v.beta, rf), v.gamma)]
Rescaled0(self, q, v) ==
    Rescaled1(q, v, IF q.u0_ = None THEN self.u0_ ELSE q.u0_,
              IF q.s0_ = None THEN self.s0_ ELSE q.s0_,
              fmul(q.rescale_factor, fdiv(v.gamma, v.beta)))
Rescaled(self, q) == Rescaled0(self, q, get_vars(self, q))
\* the object after lines 441-444
RescaledSelf(self, q, rq) ==
    InPlaceOnScalar(
        InPlaceOnScalar(
            InPlaceOnScalar(self, "scaling", q.scaling = None, rq.scaling),
            "beta", q.beta = None, rq.beta),
        "u0_", q.u0_ = None, rq.u0_)

\* lines 447-450: t and tau are the new arrays of compute_divergence
GTARefit3(q, r, k, after) ==
    IF r.raised THEN [raised |-> TRUE, self |-> after]
    ELSE IF q.rescale_factor # None
    THEN [raised |-> FALSE, t |-> Arr([i \in Idx(r.t) |-> fmul(r.t[i], k)]),
          tau |-> Arr([i \in Idx(r.tau) |-> fmul(r.tau[i], k)]), o |-> r.o, self |-> after]
    ELSE [raised |-> FALSE, t |-> r.t, tau |-> r.tau, o |-> r.o, self |-> after]
GTARefit2(self, q, rq, after) ==
    GTARefit3(q, get_divergence(after, rq, "assign_timepoints"), fdiv(after.t_, rq.t_), after)
GTARefit1(self, q, rq) ==
    GTARefit2(self, q, rq, IF q.rescale_factor # None THEN RescaledSelf(self, q, rq) ELSE self)
GTARefit(self, q) ==
    GTARefit1(self, q, IF q.rescale_factor # None THEN Rescaled(self, q) ELSE q)

\* lines 429-432: the times are given
GTAGiven2(self, t, t_, o) ==
    [raised |-> FALSE, t |-> t,
     tau |-> Arr([i \in Idx(t) |-> fadd(fmul(t[i], o[i] * ONE),
                                        fmul(fsub(t[i], t_), (1 - o[i]) * ONE))]),
     o |-> o, self |-> self]
GTAGiven1(self, t, t_) == GTAGiven2(self, t, t_, Arr([i \in Idx(t) |-> B2I(flt(t[i], t_))]))
GTAGiven(self, q) == GTAGiven1(self, q.t, IF q.t_ = None THEN self.t_ ELSE q.t_)

\* line 452: the stored arrays themselves
GTAStored(self) == [raised |-> FALSE, t |-> self.t, tau |-> self.tau, o |-> self.o, self |-> self]

\* lines 454-457: x[self.weights] is a new array
GetTimeAssignment1(res, weighted) ==
    IF res.raised \/ weighted = "False" THEN res
    ELSE [res EXCEPT !.t   = Select(res.t, res.self.weights),
                     !.tau = Select(res.tau, res.self.weights),
                     !.o   = Select(res.o, res.self.weights)]
\* lines 424-457: returns t, tau, o (or raises) and leaves the object as self
get_time_assignment(self, q, weighted) ==
    GetTimeAssignment1(
        IF q.t # NoArr THEN GTAGiven(self, q)
        ELSE IF (IF q.refit_time = "None" THEN self.refit_time ELSE q.refit_time) = "True"
        THEN GTARefit(self, q)
        ELSE GTAStored(self),
        weighted)

\* lines 476-482
GetDists5(self, v, u, s, ms) ==
    [raised |-> FALSE, self |-> self,
     udiff |-> Arr([i \in Idx(u) |-> fmul(fdiv(fsub(ms[i][1], u[i]), self.std_u), v.scaling)]),
     sdiff |-> Arr([i \in Idx(u) |-> fdiv(fsub(ms[i][2], s[i]), self.std_s)]),
     reg   |-> Arr([i \in Idx(u) |->
                 IF self.steady_state_ratio = None THEN 0
                 ELSE fdiv(fmul(fsub(fdiv(v.gamma, v.beta), self.steady_state_ratio), s[i]),
                           self.std_s)])]
GetDists4(self, v, u, s, vec) ==
    GetDists5(self, v, u, s, Arr([i \in Idx(u) |->
        mRNA(vec.tau[i], vec.u0[i], vec.s0[i], vec.alpha[i], v.beta, v.gamma)]))
GetDists3(self, v, x) ==
    IF x.raised THEN [raised |-> TRUE, self |-> self]
    ELSE GetDists4(self, v, x.u, x.s, vectorize(x.t, v.t_, v.alpha, v.beta, v.gamma))
\* lines 472-474: np.max of an empty array raises
GetDistsDynamical(u, s, t, idx) ==
    IF npany(idx) THEN [raised |-> FALSE, u |-> Select(u, idx), s |-> Select(s, idx),
                        t |-> Select(t, idx)]
    ELSE [raised |-> FALSE, u |-> u, s |-> s, t |-> t]
GetDists2(v, rd, ta, weighted) ==
    GetDists3(ta.self, v,
        IF ta.raised THEN [raised |-> TRUE]
        ELSE IF weighted # "dynamical" THEN [raised |-> FALSE, u |-> rd.u, s |-> rd.s, t |-> ta.t]
        ELSE IF rd.u = <<>> THEN [raised |-> TRUE]
        ELSE GetDistsDynamical(rd.u, rd.s, ta.t,
                 Arr([i \in Idx(rd.u) |-> /\ fgt(rd.u[i], fdiv(MaxSeq(rd.u), 3 * ONE))
                                        /\ fgt(rd.s[i], fdiv(MaxSeq(rd.s), 3 * ONE))])))
GetDists1(self, q, v, rd, weighted) ==
    GetDists2(v, rd,
              get_time_assignment(self,
                  [q EXCEPT !.alpha = v.alpha, !.beta = v.beta, !.gamma = v.gamma,
                            !.scaling = v.scaling, !.t_ = v.t_, !.rescale_factor = None],
                  weighted),
              weighted)
\* lines 465-482: returns udiff, sdiff, reg
get_dists(self, q, weighted) ==
    GetDists1(self, q, get_vars(self, q), get_reads(self, q.scaling, weighted), weighted)

SumSq(a) == SumSeq(Arr([i \in Idx(a) |-> Sq(a[i])]))
\* lines 488-490
get_se(d) ==
    IF d.raised THEN d
    ELSE [raised |-> FALSE, self |-> d.self,
          out |-> fadd(fadd(SumSq(d.udiff), SumSq(d.sdiff)), SumSq(d.reg))]
\* lines 495-496
get_loss(self, q) == get_se(get_dists(self, q, "True"))

TwoPi == RoundDiv(6283 * SCALE, 1000)
npsign(x) == IF IsNaN(x) THEN NaN ELSE Sgn(x) * ONE
\* lines 501-503
LogLikelihood2(d, distx, varx) ==
    [raised |-> FALSE, self |-> d.self,
     out |-> fsub(fdiv(fmul(fdiv(fdiv(0 - ONE, 2 * ONE), Len(distx) * ONE), SumSeq(distx)), varx),
                  fmul(fdiv(ONE, 2 * ONE), nplog(fmul(TwoPi, varx))))]
LogLikelihood1(d, distx) ==
    LogLikelihood2(d, distx,
        fsub(npmean(distx),
             Sq(npmean(Arr([i \in Idx(distx) |-> fmul(npsign(d.sdiff[i]), fsqrt(distx[i]))])))))
LogLikelihood0(d) ==
    IF d.raised THEN d
    ELSE LogLikelihood1(d, Arr([i \in Idx(d.udiff) |->
             fadd(fadd(Sq(d.udiff[i]), Sq(d.sdiff[i])), Sq(d.reg[i]))]))
\* lines 498-503, without a keyword weighted
get_loglikelihood(self, q) == LogLikelihood0(get_dists(self, q, "dynamical"))

\* lines 505-508
Likelihood0(l) == IF l.raised THEN l ELSE [l EXCEPT !.out = exp(l.out)]
get_likelihood(self, q) == Likelihood0(get_loglikelihood(self, q))

(* ------------- compute_divergence: the likelihood modes --------------- *)
\* normalize(X, axis=0): X_sum += X_sum == 0 keeps a zero sum from dividing
\* (nan == 0 is False)
NormalizeSum_unguarded(xsum) == xsum
NormalizeSum(xsum) == fadd(xsum, B2F(xsum = 0))
ColSum(X, i) == SumSeq(Arr([k \in Idx(X) |-> X[k][i]]))
normalize1(X, xsum) ==
    Arr([k \in Idx(X) |-> Arr([i \in Idx(X[k]) |-> fdiv(X[k][i], xsum[i])])])
normalize(X) == normalize1(X, Arr([i \in Idx(X[1]) |-> NormalizeSum(ColSum(X, i))]))

\* lines 244, 252: 1 / (2 * np.pi * np.sqrt(varu * vars)) * np.exp(-.5 * res),
\* varu = vars = 1
Gauss(x) ==
    fmul(fdiv(ONE, fmul(TwoPi, fsqrt(fmul(ONE, ONE)))), exp(fmul(0 - HALF, x)))
GaussRows(rows) == Arr([k \in Idx(rows) |-> Arr([i \in Idx(rows[k]) |-> Gauss(rows[k][i])])])

\* lines 243-245, mode 'likelihood'
\* (raw is res as it is before line 245 normalizes it)
Likelihood1(m, normalized, lik) ==
    [raised |-> FALSE, mode |-> "likelihood", normalized |-> normalized, fresh |-> m.fresh,
     raw |-> lik, res |-> IF normalized THEN normalize(lik) ELSE lik,
     tau |-> m.tau, tau_ |-> m.tau_]
ModeLikelihood0(m, normalized) ==
    IF m.raised THEN [raised |-> TRUE, mode |-> "likelihood", normalized |-> normalized]
    ELSE Likelihood1(m, normalized, GaussRows(m.res))
ModeLikelihood(a, normalized) == ModeLikelihood0(CDCommon(a), normalized)

\* lines 254-256: steady = max(res[2], res[3]); res = clip(res - steady, 0, None)
SoftClip1(lik, steady) ==
    Arr([k \in Idx(lik) |-> Arr([i \in Idx(lik[k]) |-> clip(fsub(lik[k][i], steady[i]), 0, None)])])
SoftClip(lik) == SoftClip1(lik, Arr([i \in Idx(lik[1]) |-> fmax2(lik[3][i], lik[4][i])]))
\* lines 260-261: o_, o = res[0], res[1] and the modeled (u, s) weighted by them
\* (raw is res as it is before line 258 normalizes it)
SoftEval3(m, normalized, raw, o_, o) ==
    [raised |-> FALSE, mode |-> "soft_eval", normalized |-> normalized, fresh |-> m.fresh,
     raw |-> raw, o_ |-> o_, o |-> o,
     ut |-> Arr([i \in Idx(o) |-> fadd(fmul(m.ut[i], o[i]), fmul(m.ut_[i], o_[i]))]),
     st |-> Arr([i \in Idx(o) |-> fadd(fmul(m.st[i], o[i]), fmul(m.st_[i], o_[i]))]),
     tau |-> m.tau, tau_ |-> m.tau_]
SoftEval2(m, normalized, raw, res) == SoftEval3(m, normalized, raw, res[1], res[2])
SoftEval1(m, normalized, res) ==
    SoftEval2(m, normalized, res, IF normalized THEN normalize(res) ELSE res)
\* lines 251-261, mode 'soft_eval'
ModeSoftEval0(m, fit_steady_states, normalized, lik) ==
    SoftEval1(m, normalized, IF fit_steady_states THEN SoftClip(lik) ELSE lik)
ModeSoftEval00(m, fit_steady_states, normalized) ==
    IF m.raised THEN [raised |-> TRUE, mode |-> "soft_eval", normalized |-> normalized]
    ELSE ModeSoftEval0(m, fit_steady_states, normalized, GaussRows(m.res))
ModeSoftEval(a, normalized) == ModeSoftEval00(CDCommon(a), a.fit_steady_states, normalized)

\* a query without arguments
NoArgs ==
    [alpha |-> None, beta |-> None, gamma |-> None, scaling |-> None, t_ |-> None,
     u0_ |-> None, s0_ |-> None, rescale_factor |-> None, t |-> NoArr, refit_time |-> "None"]

\* lines 375-384
LoadPars1(self, adata, st0) ==
    [self EXCEPT !.alpha = adata.alpha, !.beta = adata.beta, !.gamma = adata.gamma,
                 !.scaling = adata.scaling, !.t_ = adata.t_,
                 !.steady_state_ratio = fdiv(adata.gamma, adata.beta),
                 !.u0 = 0, !.s0 = 0, !.alpha_ = 0, !.u0_ = st0[1], !.s0_ = st0[2],
                 !.pars = <<adata.alpha, adata.beta, adata.gamma, adata.t_, adata.scaling>>]
\* lines 391-395: refit_time is a time array or the name of a column
LoadParsTimes1(self, given, steady_states) ==
    [self EXCEPT !.t = given, !.refit_time = "False", !.refit_array = NoArr,
                 !.t_ = IF npany(steady_states) THEN npmean(Select(given, steady_states)) ELSE @]
LoadParsTimes(self, adata) ==
    LoadParsTimes1(self, IF self.refit_time = "column" THEN adata.column ELSE self.refit_array,
                   Arr([i \in Idx(adata.t) |-> adata.t[i] = self.t_]))
\* lines 389, 397: self.t, self.tau, self.o = self.get_time_assignment(t=...)
LoadPars3(ta) == [ta.self EXCEPT !.t = ta.t, !.tau = ta.tau, !.o = ta.o]
LoadPars2b(self, t) == LoadPars3(get_time_assignment(self, [NoArgs EXCEPT !.t = t], "False"))
LoadPars2a(self, adata, bool) == LoadPars2b(self, IF bool THEN adata.t ELSE self.t)
LoadPars2(self, adata, bool) ==
    LoadPars2a(IF bool THEN self ELSE LoadParsTimes(self, adata), adata, bool)
\* line 399
LoadPars5(l) == IF l.raised THEN l.self ELSE [l.self EXCEPT !.loss = <<l.out>>]
LoadPars4(self) == LoadPars5(get_loss(self, NoArgs))
\* lines 373-399
load_pars(self, adata) ==
    LoadPars4(LoadPars2(LoadPars1(self, adata,
                            mRNA(adata.t_, 0, 0, adata.alpha, adata.beta, adata.gamma)),
                        adata, self.refit_time \in {"True", "False"}))

(* ====================================================================== *)
(* State                                                                   *)
(* ====================================================================== *)
VARIABLES
    fn,     \* the last application of a helper function: its inputs and its result
    arg,    \* the argument objects a caller of compute_divergence holds
    calls,  \* the calls made so far: the arguments as they were, and the result
    self    \* the BaseDynamics object

vars == <<fn, arg, calls, self>>
Idle == [op |-> "none"]

(* ---------------- the helper functions, applied to inputs -------------- *)
Rates   == {HALF, ONE, 2 * ONE}                 \* beta, gamma
Alphas  == {0, 2 * ONE}                         \* alpha (0 on the repression branch)
Times   == {0, HALF, ONE, 2 * ONE, 3 * ONE}     \* tau
Levels  == {0, HALF, ONE, 2 * ONE}              \* u0, s0
\* observed (u, s) of one cell
Obs     == {<<0, 0>>, <<ONE, HALF>>, <<2 * ONE, ONE>>, <<ONE, 2 * ONE>>}
Starts  == {<<0, 0>>, <<ONE, ONE>>, <<2 * ONE, ONE>>}   \* (u0, s0)
Cells   == 1..MaxCells
ObsArrays == UNION {[1..n -> Obs] : n \in Cells}
RateArrays(n) == [1..n -> Rates]
Col(x, k) == Arr([i \in 1..Len(x) |-> x[i][k]])

\* each run applies one function to one input
InitFn == fn = Idle /\ arg = Idle /\ calls = <<>> /\ self = Idle

CallInv ==
    /\ fn.op = "none"
    /\ \E x \in {0, HALF, ONE, 0 - ONE, 2 * ONE, PInf} :
        fn' = [op |-> "inv", x |-> x, out |-> inv(x)]
    /\ UNCHANGED <<arg, calls, self>>

CallInvPyFloat ==
    /\ fn.op = "none"
    /\ \E x \in {0, HALF, ONE, 0 - ONE, 2 * ONE} :
        fn' = [op |-> "inv_pyfloat", x |-> x, out |-> inv_pyfloat(x)]
    /\ UNCHANGED <<arg, calls, self>>

CallSpliced ==
    /\ fn.op = "none"
    /\ \E tau \in Times, st \in Starts, alpha \in Alphas, beta \in Rates, gamma \in Rates :
        fn' = [op |-> "spliced", tau |-> tau, s0 |-> st[2], u0 |-> st[1], alpha |-> alpha,
               beta |-> beta, gamma |-> gamma,
               out |-> spliced(tau, st[2], st[1], alpha, beta, gamma)]
    /\ UNCHANGED <<arg, calls, self>>

CallUnspliced ==
    /\ fn.op = "none"
    /\ \E tau \in Times, u0 \in Levels, alpha \in Alphas, beta \in Rates :
        fn' = [op |-> "unspliced", tau |-> tau, u0 |-> u0, alpha |-> alpha, beta |-> beta,
               out |-> unspliced(tau, u0, alpha, beta)]
    /\ UNCHANGED <<arg, calls, self>>

CallMRNA ==
    /\ fn.op = "none"
    /\ \E tau \in Times, st \in Starts, alpha \in Alphas, beta \in Rates, gamma \in Rates :
        fn' = [op |-> "mRNA", tau |-> tau, u0 |-> st[1], s0 |-> st[2], alpha |-> alpha,
               beta |-> beta, gamma |-> gamma,
               out |-> mRNA(tau, st[1], st[2], alpha, beta, gamma)]
    /\ UNCHANGED <<arg, calls, self>>

\* tau_inv on an array of cells; s and gamma are optional (NoArr: not supplied)
CallTauInv ==
    /\ fn.op = "none"
    /\ \E x \in ObsArrays, st \in {<<0, 0>>, <<2 * ONE, ONE>>}, alpha \in Alphas,
       withS \in BOOLEAN, withGamma \in BOOLEAN :
      \E gamma \in (IF withGamma THEN RateArrays(Len(x)) ELSE {NoArr}) :
        LET u == Col(x, 1)
            s == IF withS THEN Col(x, 2) ELSE NoArr
        IN  fn' = [op |-> "tau_inv", u |-> u, s |-> s, u0 |-> st[1], s0 |-> st[2],
                   alpha |-> alpha, beta |-> ONE, gamma |-> gamma,
                   out |-> tau_inv(u, s, st[1], st[2], alpha, ONE, gamma)]
    /\ UNCHANGED <<arg, calls, self>>

\* assign_tau (analytic) on the cells of a gene whose repression starts at
\* (u0_, s0_) = mRNA(t_, 0, 0, alpha, beta, gamma)
AssignTauAt(u, s, alpha, beta, gamma, t_, st0) ==
    [op |-> "assign_tau", u |-> u, s |-> s, alpha |-> alpha, beta |-> beta, gamma |-> gamma,
     t_ |-> t_, u0_ |-> st0[1], s0_ |-> st0[2],
     out |-> assign_tau(u, s, alpha, beta, gamma, t_, st0[1], st0[2])]
CallAssignTau ==
    /\ fn.op = "none"
    /\ \E x \in ObsArrays, gamma \in Rates, t_ \in {ONE, 2 * ONE} :
        fn' = AssignTauAt(Col(x, 1), Col(x, 2), 2 * ONE, ONE, gamma, t_,
                          mRNA(t_, 0, 0, 2 * ONE, ONE, gamma))
    /\ UNCHANGED <<arg, calls, self>>

\* adjust_increments on an array of times; the caller keeps its array
AdjustTimes == {0 - ONE, 0, ONE, 10 * ONE, 30 * ONE, 100 * ONE, 200 * ONE}
CallAdjustIncrements ==
    /\ fn.op = "none"
    /\ \E tau \in UNION {[1..n -> AdjustTimes] : n \in 1..(MaxCells + 1)} :
        fn' = [op |-> "adjust_increments", tau |-> tau, out |-> adjust_increments(tau),
               after |-> CallerArray(tau)]
    /\ UNCHANGED <<arg, calls, self>>

NextFn ==
    \/ CallInv \/ CallInvPyFloat \/ CallSpliced \/ CallUnspliced \/ CallMRNA \/ CallTauInv
    \/ CallAssignTau \/ CallAdjustIncrements

\* the helper functions applied to every input of the bounded sets
SpecFn == InitFn /\ [][NextFn]_vars

(* ------------- a caller of compute_divergence and its arrays ----------- *)
SwitchTime == 2 * ONE
\* the observations of a gene with rates alpha, beta, gamma: a cell at the
\* origin, one at the induction steady state and one off both
ObsOf(alpha, beta, gamma) ==
    {<<0, 0>>, <<fdiv(alpha, beta), fdiv(alpha, gamma)>>, <<ONE, HALF>>}
\* times a caller may hand in for one cell, (tau, tau_): one unit into each
\* branch, or the switch itself (the end of induction, the start of repression)
TauOf == {<<ONE, ONE>>, <<SwitchTime, 0>>}
\* connectivities: none, or every cell averaged with its successor
ConnOf(n) == {NoArr, [i \in 1..n |-> [j \in 1..n |->
                 IF j = i \/ j = (i % n) + 1 THEN (IF n = 1 THEN ONE ELSE HALF) ELSE 0]]}
\* the arrays tau, tau_ of a caller: not supplied, or one pair of times a cell
TauArrays(n) == {<<NoArr, NoArr>>} \cup {<<Col(tt, 1), Col(tt, 2)>> : tt \in [1..n -> TauOf]}

InitDiv ==
    /\ fn = Idle
    /\ calls = <<>>
    /\ self = Idle
    /\ \E n \in Cells, gamma \in Rates :
       \E x \in [1..n -> ObsOf(2 * ONE, ONE, gamma)], tt \in TauArrays(n),
          fss \in BOOLEAN, conn \in ConnOf(n) :
          arg = [u |-> Col(x, 1), s |-> Col(x, 2), alpha |-> 2 * ONE, beta |-> ONE,
                 gamma |-> gamma, scaling |-> ONE, t_ |-> SwitchTime,
                 u0_ |-> None, s0_ |-> None, tau |-> tt[1], tau_ |-> tt[2],
                 std_u |-> ONE, std_s |-> ONE, fit_steady_states |-> fss,
                 connectivities |-> conn, constraint_time_increments |-> TRUE]

\* the caller's arrays after a call: tau and tau_ are the caller's own
\* objects unless the call made fresh ones
AfterCall(a, r) ==
    IF "fresh" \in DOMAIN r /\ ~r.fresh THEN [a EXCEPT !.tau = r.tau, !.tau_ = r.tau_] ELSE a

Called(r) ==
    /\ calls' = Append(calls, [a |-> arg, r |-> r])
    /\ arg' = AfterCall(arg, r)
    /\ UNCHANGED <<fn, self>>

\* a caller makes at most two calls, the second in the mode of the first
MayCall(mode) == calls = <<>> \/ (Len(calls) = 1 /\ calls[1].r.mode = mode)

CallAssignTimepoints == MayCall("assign_timepoints") /\ Called(ModeAssignTimepoints(arg))
CallHardState        == MayCall("hard_state") /\ Called(ModeHardState(arg))
CallHardEval         == MayCall("hard_eval") /\ \E objarr \in BOOLEAN : Called(ModeHardEval(arg, objarr))

NextDiv == CallAssignTimepoints \/ CallHardState \/ CallHardEval

\* compute_divergence called on the arguments of a caller
SpecDiv == InitDiv /\ [][NextDiv]_vars

(* ------------------- a BaseDynamics object and its user ---------------- *)
CtlCells == MaxCells + 1
\* the data of a gene: a first cell at the induction steady state of
\* gamma = 1/2 or without counts, the others on the way
GeneData ==
    {<<c>> \o x : c \in {<<2 * ONE, 4 * ONE>>, <<0, 0>>},
                  x \in [1..(CtlCells - 1) -> {<<ONE, HALF>>, <<3 * HALF, ONE>>}]}
Ramp == [i \in 1..CtlCells |-> i * ONE]
Const(v) == [i \in 1..CtlCells |-> v]
\* refit_time and the time array it stands for
RefitTimes ==
    {<<"True", NoArr>>, <<"False", NoArr>>, <<"column", NoArr>>,
     <<"array", Ramp>>, <<"array", Const(3 * ONE)>>}
\* the fitted parameters and times load_pars reads
AData ==
    [alpha : {2 * ONE}, beta : {ONE}, gamma : Rates, scaling : {ONE}, t_ : {SwitchTime},
     t : {Ramp, Const(ONE)}, column : {Const(3 * ONE)}]
\* candidate parameters of a query
Candidates ==
    {NoArgs,
     [NoArgs EXCEPT !.alpha = 3 * ONE, !.beta = ONE, !.gamma = HALF,
                    !.scaling = 2 * ONE, !.t_ = 3 * ONE],
     [NoArgs EXCEPT !.u0_ = ONE, !.s0_ = HALF]}

InitCtl ==
    /\ fn = Idle /\ arg = Idle /\ calls = <<>>
    /\ \E x \in GeneData, rt \in RefitTimes :
        self = BaseDynamics(Col(x, 1), Col(x, 2), rt[1], rt[2], TRUE, NoArr)

Loaded == self.alpha # None

LoadPars ==
    /\ ~Loaded
    /\ \E adata \in AData : self' = load_pars(self, adata)
    /\ UNCHANGED <<fn, arg, calls>>

\* a query op(q, ...) answered with res: the object before the call, the
\* call and what it returned are noted, the object is as the call leaves it
Returns(res) == IF res.raised THEN <<"raised">> ELSE <<"returned", res.out>>
Answered(op, q, res) ==
    /\ calls' = Append(calls, [op |-> op, q |-> q, self |-> self, r |-> Returns(res)])
    /\ self' = res.self
    /\ UNCHANGED <<fn, arg>>
\* a user asks at most twice, the second time the same again
MayAsk(op, q) ==
    /\ Loaded
    /\ calls = <<>> \/ (Len(calls) = 1 /\ calls[1].op = op /\ calls[1].q = q)

GetLoss ==
    \E c \in Candidates, rt \in {"None", "True"} :
        /\ MayAsk("get_loss", [c EXCEPT !.refit_time = rt])
        /\ Answered("get_loss", [c EXCEPT !.refit_time = rt],
                    get_loss(self, [c EXCEPT !.refit_time = rt]))

GetLoglikelihood ==
    \E c \in Candidates, rt \in {"None", "True"} :
        /\ MayAsk("get_loglikelihood", [c EXCEPT !.refit_time = rt])
        /\ Answered("get_loglikelihood", [c EXCEPT !.refit_time = rt],
                    get_loglikelihood(self, [c EXCEPT !.refit_time = rt]))

GetLikelihood ==
    \E c \in Candidates, rt \in {"None", "True"} :
        /\ MayAsk("get_likelihood", [c EXCEPT !.refit_time = rt])
        /\ Answered("get_likelihood", [c EXCEPT !.refit_time = rt],
                    get_likelihood(self, [c EXCEPT !.refit_time = rt]))

\* get_divergence returns what compute_divergence returns
DivergenceOut(obj, r) ==
    [raised |-> r.raised, self |-> obj,
     out |-> IF r.raised THEN <<>>
             ELSE IF r.mode = "hard_state" THEN <<r.res>> ELSE <<r.t, r.tau, r.o>>]
GetDivergence ==
    \E c \in Candidates, mode \in {"hard_state", "assign_timepoints"} :
        /\ MayAsk(mode, c)
        /\ Answered(mode, c, DivergenceOut(self, get_divergence(self, c, mode)))

TimeAssignmentOut(ta) ==
    [raised |-> ta.raised, self |-> ta.self,
     out |-> IF ta.raised THEN <<>> ELSE <<ta.t, ta.tau, ta.o>>]
\* the ways to ask for a time assignment: t, refit_time, rescale_factor
TimeArgs ==
    {<<Ramp, "False", None>>, <<NoArr, "False", None>>,
     <<NoArr, "True", None>>, <<NoArr, "True", 2 * ONE>>}
GetTimeAssignment ==
    \E c \in Candidates, ta \in TimeArgs, weighted \in {"False", "True"} :
        /\ MayAsk("get_time_assignment" \o weighted,
                  [c EXCEPT !.t = ta[1], !.refit_time = ta[2], !.rescale_factor = ta[3]])
        /\ Answered("get_time_assignment" \o weighted,
                    [c EXCEPT !.t = ta[1], !.refit_time = ta[2], !.rescale_factor = ta[3]],
                    TimeAssignmentOut(get_time_assignment(self,
                        [c EXCEPT !.t = ta[1], !.refit_time = ta[2], !.rescale_factor = ta[3]],
                        weighted)))

NextCtl ==
    LoadPars \/ GetLoss \/ GetLoglikelihood \/ GetLikelihood \/ GetDivergence \/ GetTimeAssignment

\* an object is constructed, loads its parameters and answers queries
SpecCtl == InitCtl /\ [][NextCtl]_vars

(* --------------- compute_divergence asked for likelihoods -------------- *)
\* the observations: those of ObsOf and a cell far from every state
FarObsOf(alpha, beta, gamma) == ObsOf(alpha, beta, gamma) \cup {<<0, 4 * ONE>>}
InitLik ==
    /\ fn = Idle
    /\ calls = <<>>
    /\ self = Idle
    /\ \E n \in Cells, gamma \in Rates :
       \E x \in [1..n -> FarObsOf(2 * ONE, ONE, gamma)], fss \in BOOLEAN, conn \in ConnOf(n) :
          arg = [u |-> Col(x, 1), s |-> Col(x, 2), alpha |-> 2 * ONE, beta |-> ONE,
                 gamma |-> gamma, scaling |-> ONE, t_ |-> SwitchTime,
                 u0_ |-> None, s0_ |-> None, tau |-> NoArr, tau_ |-> NoArr,
                 std_u |-> ONE, std_s |-> ONE, fit_steady_states |-> fss,
                 connectivities |-> conn, constraint_time_increments |-> TRUE]

CallLikelihood ==
    /\ calls = <<>>
    /\ \E normalized \in BOOLEAN : Called(ModeLikelihood(arg, normalized))
CallSoftEval ==
    /\ calls = <<>>
    /\ \E normalized \in BOOLEAN : Called(ModeSoftEval(arg, normalized))

NextLik == CallLikelihood \/ CallSoftEval

\* one call of compute_divergence in a likelihood mode
SpecLik == InitLik /\ [][NextLik]_vars

(* ------------------------ compute_dt, root_time ------------------------ *)
(* An array argument t is a record: ndim = 2 and v the rows (one a cell,   *)
(* with one time a gene), or ndim = 1 and v the times.                     *)
\* (variant) the gaps left as they are
DtClip_none(dt, ub) == dt
\* line 52: np.clip(dt, 0, ub)
DtClip(dt, ub) == Arr([i \in Idx(dt) |-> clip(dt[i], 0, ub)])
\* lines 48-52 for one column
ComputeDtCol2(dt, clipped, m_dt) ==
    IF clipped THEN DtClip(dt, fadd(m_dt, fmul(3 * ONE, fsqrt(m_dt)))) ELSE dt
ComputeDtCol1(col, dt, clipped) ==
    ComputeDtCol2(dt, clipped,
                  clip(fmax2(npmean(dt), fdiv(MaxSeq(col), Len(col) * ONE)), 0, None))
\* line 47 for one column: the differences of the sorted column, the first
\* taken from the minimum
ComputeDtCol0(col, sorted, clipped) ==
    ComputeDtCol1(col, Arr([i \in Idx(col) |->
                      fsub(sorted[i], IF i = 1 THEN MinSeq(col) ELSE sorted[i - 1])]), clipped)
ComputeDtCol(col, clipped) == ComputeDtCol0(col, npsort(col), clipped)
\* the rows of an array given by its columns
Rows(cols, n) == Arr([i \in 1..n |-> Arr([g \in Idx(cols) |-> cols[g][i]])])
\* lines 45-53 (axis = 0): np.min(t, axis=0)[None, :] of a 1-d array indexes
\* a scalar, an IndexError
compute_dt(t, clipped) ==
    IF t.ndim = 1 THEN [raised |-> TRUE]
    ELSE [raised |-> FALSE,
          dt |-> Rows(Arr([g \in Idx(t.v[1]) |-> ComputeDtCol(Col(t.v, g), clipped)]),
                      Len(t.v))]

\* lines 56-65 for the times of one gene (root is 0-based); o is the mask
\* t >= t_root, and the products with o and 1 - o leave 0 at the other cells
RootTimeCol3(t_after, t_before) ==
    [t_rooted |-> Arr([i \in Idx(t_after) |-> fadd(t_after[i], t_before[i])]),
     t_switch |-> MinSeq(t_before)]
RootTimeCol2(col, o, t_after, t_origin) ==
    RootTimeCol3(t_after,
        Arr([i \in Idx(col) |-> fmul(fadd(col[i], t_origin), (1 - B2I(o[i])) * ONE)]))
RootTimeCol1(col, o, t_after) == RootTimeCol2(col, o, t_after, MaxSeq(t_after))
RootTimeCol0(col, t_root, o) ==
    RootTimeCol1(col, o, Arr([i \in Idx(col) |-> fmul(fsub(col[i], t_root), B2F(o[i]))]))
RootTimeCol(col, root) ==
    RootTimeCol0(col, col[root + 1], Arr([i \in Idx(col) |-> fge(col[i], col[root + 1])]))
\* root_time(t, root): t_rooted has the shape of t; t_switch is a number for a
\* 1-d array and has one entry a gene for a 2-d array
root_time(t, root) ==
    IF t.ndim = 1
    THEN RootTimeCol(t.v, root)
    ELSE [t_rooted |-> Rows(Arr([g \in Idx(t.v[1]) |-> RootTimeCol(Col(t.v, g), root).t_rooted]),
                            Len(t.v)),
          t_switch |-> Arr([g \in Idx(t.v[1]) |-> RootTimeCol(Col(t.v, g), root).t_switch])]

\* times of a cell, some far apart, one negative
DtTimes == {0 - ONE, 0, ONE, 3 * ONE, 10 * ONE, 30 * ONE}
\* the times 0, 1, 2, 3
Steps == [i \in 1..4 |-> (i - 1) * ONE]
\* the times of the cells for one gene
DtColumns == UNION {[1..n -> DtTimes] : n \in 1..CtlCells} \cup {Steps}
\* an array of these times: 1-d, 2-d with one gene, or 2-d with a second
\* gene that has the times reversed
DtArray(c, shape) ==
    IF shape = "1d" THEN [ndim |-> 1, v |-> c]
    ELSE IF shape = "one gene" THEN [ndim |-> 2, v |-> Arr([i \in Idx(c) |-> <<c[i]>>])]
    ELSE [ndim |-> 2, v |-> Arr([i \in Idx(c) |-> <<c[i], c[Len(c) + 1 - i]>>])]
DtShapes == {"1d", "one gene", "two genes"}

InitDt == fn = Idle /\ arg = Idle /\ calls = <<>> /\ self = Idle

CallComputeDt ==
    /\ fn = Idle
    /\ \E c \in DtColumns, shape \in DtShapes, clipped \in BOOLEAN :
        fn' = [op |-> "compute_dt", t |-> DtArray(c, shape), clipped |-> clipped,
               out |-> compute_dt(DtArray(c, shape), clipped)]
    /\ UNCHANGED <<arg, calls, self>>

CallRootTime ==
    /\ fn = Idle
    /\ \E c \in DtColumns, shape \in DtShapes :
       \E root \in 0..(Len(c) - 1) :
        fn' = [op |-> "root_time", t |-> DtArray(c, shape), root |-> root,
               out |-> root_time(DtArray(c, shape), root)]
    /\ UNCHANGED <<arg, calls, self>>

NextDt == CallComputeDt \/ CallRootTime

\* compute_dt and root_time applied to arrays of times
SpecDt == InitDt /\ [][NextDt]_vars

(* ------------------- the construction of an object -------------------- *)
\* the counts (u, s) of one cell of a gene, some without reads
Counts == {<<0, 0>>, <<0, ONE>>, <<ONE, HALF>>, <<3 * HALF, ONE>>, <<2 * ONE, 4 * ONE>>}
CountArrays == UNION {[1..n -> Counts] : n \in 1..CtlCells}
\* the cells with both counts positive (line 365)
Nonzero(u, s) == Arr([i \in Idx(u) |-> s[i] > 0 /\ u[i] > 0])
\* BaseDynamics(u=u, s=s): np.percentile of the empty selection s[nonzero]
\* raises IndexError or returns nan, depending on the numpy at hand
\* (emptynan); nothing else in __init__ raises
Constructed(u, s, emptynan) ==
    IF ~npany(Nonzero(u, s)) /\ ~emptynan
    THEN [op |-> "__init__", u |-> u, s |-> s, raised |-> TRUE]
    ELSE [op |-> "__init__", u |-> u, s |-> s, raised |-> FALSE,
          self |-> BaseDynamics(u, s, "True", NoArr, TRUE, NoArr)]

InitNew == fn = Idle /\ arg = Idle /\ calls = <<>> /\ self = Idle

Construct ==
    /\ fn = Idle
    /\ \E x \in CountArrays, emptynan \in BOOLEAN :
        /\ fn' = Constructed(Col(x, 1), Col(x, 2), emptynan)
        /\ self' = IF fn'.raised THEN Idle ELSE fn'.self
    /\ UNCHANGED <<arg, calls>>

NextNew == Construct

\* objects constructed on the data of a gene
SpecNew == InitNew /\ [][NextNew]_vars

(* ---------------------------------------------------------------------- *)
(* C1: calling assign_timepoints twice with the same arguments, the arrays *)
(* tau and tau_ of the caller among them, returns the same (t, tau, o)     *)
(* both times, and a call leaves the arrays u, s, tau, tau_ it was given   *)
(* unchanged.                                                              *)
(* ---------------------------------------------------------------------- *)
\* the caller's arguments after call k
ArgsAfter(k) == IF k < Len(calls) THEN calls[k + 1].a ELSE arg
Returned(r) == IF r.raised THEN <<"raised">> ELSE <<r.t, r.tau, r.o>>

C1_SameResultArgsUnchanged ==
    /\ \A k \in Idx(calls) :
        calls[k].r.mode = "assign_timepoints" =>
            /\ ArgsAfter(k).u = calls[k].a.u /\ ArgsAfter(k).s = calls[k].a.s
            /\ ArgsAfter(k).tau = calls[k].a.tau /\ ArgsAfter(k).tau_ = calls[k].a.tau_
    /\ (Len(calls) = 2 /\ calls[1].r.mode = "assign_timepoints") =>
            Returned(calls[1].r) = Returned(calls[2].r)

(* ---------------------------------------------------------------------- *)
(* C2: inv(x) returns 0 for every element where x = 0 (no infinity, no nan, *)
(* no error); with gamma = beta the coupling coefficient of spliced and    *)
(* mRNA is 0 and the spliced value they return is finite.                  *)
(* ---------------------------------------------------------------------- *)
C2_InvOfZeroIsZero ==
    /\ (fn.op \in {"inv", "inv_pyfloat"} /\ fn.x = 0) => fn.out = 0
    /\ (fn.op = "spliced" /\ fn.gamma = fn.beta) => IsNum(fn.out)
    /\ (fn.op = "mRNA" /\ fn.gamma = fn.beta) => IsNum(fn.out[2])

(* ---------------------------------------------------------------------- *)
(* C3: tau_inv with s, u0, s0, alpha, beta, gamma uses the joint (u, s)    *)
(* formula for exactly the elements where gamma >= beta and the            *)
(* unspliced-only formula where gamma < beta; without gamma or without s   *)
(* it uses the unspliced-only formula for every element.                   *)
(* ---------------------------------------------------------------------- *)
FnTauU(i)  == tau_inv_u(fn.u[i], fn.u0, fn.alpha, fn.beta)
FnTauUS(i) == tau_inv_us(fn.u[i], fn.s[i], fn.u0, fn.s0, fn.alpha, fn.beta, fn.gamma[i])
FnJointArgs == fn.s # NoArr /\ fn.gamma # NoArr

\* the claim as stated: joint where gamma >= beta
C3_JointWhereGammaGeBeta ==
    fn.op = "tau_inv" =>
        \A i \in Idx(fn.u) :
            IF FnJointArgs
            THEN fn.out[i] = (IF fn.gamma[i] >= fn.beta THEN FnTauUS(i) ELSE FnTauU(i))
            ELSE fn.out[i] = FnTauU(i)

\* as amended: the unspliced-only formula where gamma >= beta, the joint one
\* where gamma < beta.  When the array mixes both regimes each element is
\* selected + 0 * other, which is nan when the other formula's value is nan.
FnMixed == FnJointArgs /\ (\E i \in Idx(fn.u) : fn.gamma[i] >= fn.beta)
                       /\ (\E i \in Idx(fn.u) : fn.gamma[i] < fn.beta)
C3_UnsplicedWhereGammaGeBeta ==
    fn.op = "tau_inv" =>
        \A i \in Idx(fn.u) :
            LET useU     == ~FnJointArgs \/ fn.gamma[i] >= fn.beta
                selected == IF useU THEN FnTauU(i) ELSE FnTauUS(i)
                other    == IF useU THEN FnTauUS(i) ELSE FnTauU(i)
            IN  IF FnMixed /\ ~IsNum(other)
                THEN IsNaN(fn.out[i])
                ELSE fn.out[i] = selected

\* a mixed array: one element resolved by each formula, and the formulas differ
C3_Witness ==
    /\ fn.op = "tau_inv" /\ FnMixed
    /\ \E i, j \in Idx(fn.u) :
        /\ fn.gamma[i] > fn.beta /\ fn.gamma[j] < fn.beta
        /\ IsNum(FnTauU(i)) /\ IsNum(FnTauUS(i)) /\ FnTauU(i) # FnTauUS(i)
        /\ IsNum(FnTauU(j)) /\ IsNum(FnTauUS(j)) /\ FnTauU(j) # FnTauUS(j)
        /\ fn.out[i] = FnTauU(i) /\ fn.out[j] = FnTauUS(j)

(* ---------------------------------------------------------------------- *)
(* C4: in the result [t, tau, o] of mode 'assign_timepoints' every cell's  *)
(* o is 0 or 1, t = tau where o = 1 and t = tau_ + t_ where o = 0, and one *)
(* branch-local time is active per cell: tau is 0 where o = 0 and tau_ is  *)
(* 0 where o = 1.                                                          *)
(* ---------------------------------------------------------------------- *)
Assigned(k) == calls[k].r.mode = "assign_timepoints" /\ ~calls[k].r.raised

C4_OneActiveTimePerCell ==
    \A k \in Idx(calls) :
        Assigned(k) =>
            \A i \in Idx(calls[k].r.o) :
                /\ calls[k].r.o[i] \in {0, 1}
                /\ (calls[k].r.o[i] = 1) =>
                      (calls[k].r.t[i] = calls[k].r.tau[i] /\ calls[k].r.tau_[i] = 0)
                /\ (calls[k].r.o[i] = 0) =>
                      (/\ calls[k].r.t[i] = fadd(calls[k].r.tau_[i], calls[k].a.t_)
                       /\ calls[k].r.tau[i] = 0)

\* a call on caller-supplied nonzero times that assigns one cell to each
\* branch: the active time is kept, the other one is zeroed
C4_Witness ==
    \E k \in Idx(calls) :
        /\ Assigned(k) /\ calls[k].a.tau # NoArr
        /\ \E i, j \in Idx(calls[k].r.o) :
            /\ calls[k].r.o[i] = 1 /\ calls[k].r.tau[i] > 0
            /\ calls[k].a.tau_[i] > 0 /\ calls[k].r.tau_[i] = 0
            /\ calls[k].r.o[j] = 0 /\ calls[k].r.tau_[j] > 0
            /\ calls[k].a.tau[j] > 0 /\ calls[k].r.tau[j] = 0

(* ---------------------------------------------------------------------- *)
(* C5: in mode 'assign_timepoints' with steady-state fitting a cell whose  *)
(* minimal-distance state is the repression steady state (third candidate) *)
(* is assigned o = 0, and one whose minimal-distance state is the          *)
(* induction steady state (fourth candidate) is assigned o = 1.            *)
(* ---------------------------------------------------------------------- *)
\* the claim as stated
C5_SteadyToOwnBranch ==
    \A k \in Idx(calls) :
        (Assigned(k) /\ calls[k].a.fit_steady_states) =>
            \A i \in Idx(calls[k].r.o) :
                /\ (calls[k].r.sel[i] = 2) => calls[k].r.o[i] = 0
                /\ (calls[k].r.sel[i] = 3) => calls[k].r.o[i] = 1

\* as amended: the repression steady state is the start of induction
\* (o = 1, tau = 0, t = 0), the induction steady state the start of
\* repression (o = 0, tau_ = 0, t = t_)
C5_SteadyToNextBranchStart ==
    \A k \in Idx(calls) :
        (Assigned(k) /\ calls[k].a.fit_steady_states) =>
            \A i \in Idx(calls[k].r.o) :
                /\ (calls[k].r.sel[i] = 2) =>
                      (calls[k].r.o[i] = 1 /\ calls[k].r.tau[i] = 0 /\ calls[k].r.t[i] = 0)
                /\ (calls[k].r.sel[i] = 3) =>
                      (/\ calls[k].r.o[i] = 0 /\ calls[k].r.tau_[i] = 0
                       /\ calls[k].r.t[i] = calls[k].a.t_)

\* one call matches a cell to each steady state
C5_Witness ==
    \E k \in Idx(calls) :
        /\ Assigned(k) /\ calls[k].a.fit_steady_states
        /\ \E i, j \in Idx(calls[k].r.o) :
            /\ calls[k].r.sel[i] = 2 /\ calls[k].r.o[i] = 1
            /\ calls[k].r.sel[j] = 3 /\ calls[k].r.o[j] = 0

(* ---------------------------------------------------------------------- *)
(* C6: in mode 'hard_eval', for any number of cells, the result holds for  *)
(* every cell i the modeled (u, s) of that cell's own minimal-distance     *)
(* state: (ut_[i], st_[i]) when it is the repression curve, (ut[i], st[i]) *)
(* when it is the induction curve, whatever the other cells select.        *)
(* ---------------------------------------------------------------------- *)
\* what call k computed before the dispatch on mode, and each cell's argmin
Common(k) == CDCommon(calls[k].a)
Best(k) == ArgMinRows(Common(k).res)

C6_HardEvalPerCell ==
    \A k \in Idx(calls) :
        (calls[k].r.mode = "hard_eval" /\ ~Common(k).raised) =>
            /\ ~calls[k].r.raised
            /\ \A i \in Idx(calls[k].a.u) :
                /\ (Best(k)[i] = 0) => (/\ calls[k].r.ut[i] = Common(k).ut_[i]
                                        /\ calls[k].r.st[i] = Common(k).st_[i])
                /\ (Best(k)[i] = 1) => (/\ calls[k].r.ut[i] = Common(k).ut[i]
                                        /\ calls[k].r.st[i] = Common(k).st[i])

(* ---------------------------------------------------------------------- *)
(* C7: mode 'hard_state' returns for every cell an index in {0, 1}, for    *)
(* every setting of fit_steady_states.                                     *)
(* ---------------------------------------------------------------------- *)
HardStated(k) == calls[k].r.mode = "hard_state" /\ ~calls[k].r.raised

\* the claim as stated
C7_HardStateIsBranch ==
    \A k \in Idx(calls) :
        HardStated(k) => \A i \in Idx(calls[k].r.res) : calls[k].r.res[i] \in {0, 1}

\* as amended: the index of a candidate state, one of four with
\* fit_steady_states and one of the two curves without
C7_HardStateIsCandidate ==
    \A k \in Idx(calls) :
        HardStated(k) =>
            \A i \in Idx(calls[k].r.res) :
                calls[k].r.res[i] \in (IF calls[k].a.fit_steady_states THEN 0..3 ELSE 0..1)

\* one call returns both steady states
C7_Witness ==
    \E k \in Idx(calls) :
        /\ HardStated(k) /\ calls[k].a.fit_steady_states
        /\ \E i, j \in Idx(calls[k].r.res) : calls[k].r.res[i] = 2 /\ calls[k].r.res[j] = 3

(* ---------------------------------------------------------------------- *)
(* C8: for every cell whose distances to the two curves are equal and      *)
(* minimal, modes 'hard_state' and 'hard_eval' select the lower-indexed    *)
(* state: the repression curve (index 0).                                  *)
(* ---------------------------------------------------------------------- *)
Tied(k, i) ==
    /\ IsNum(Common(k).res[1][i])
    /\ Common(k).res[1][i] = Common(k).res[2][i]
    /\ \A c \in Idx(Common(k).res) : fle(Common(k).res[1][i], Common(k).res[c][i])

C8_TieToRepression ==
    \A k \in Idx(calls) :
        (calls[k].r.mode \in {"hard_state", "hard_eval"} /\ ~Common(k).raised) =>
            \A i \in Idx(calls[k].a.u) :
                Tied(k, i) =>
                    IF calls[k].r.mode = "hard_state"
                    THEN calls[k].r.res[i] = 0
                    ELSE /\ ~calls[k].r.raised
                         /\ calls[k].r.o_ = 1 /\ calls[k].r.o = 0
                         /\ calls[k].r.ut[i] = Common(k).ut_[i]
                         /\ calls[k].r.st[i] = Common(k).st_[i]

(* ---------------------------------------------------------------------- *)
(* C9: after load_pars and whatever follows it, for every kind of          *)
(* refit_time (bool, column name, time array), the stored (u0_, s0_) is    *)
(* mRNA(t_, 0, 0, alpha, beta, gamma) of the stored alpha, beta, gamma, t_. *)
(* ---------------------------------------------------------------------- *)
C9_SwitchStateFollowsPars ==
    (self # Idle /\ Loaded) =>
        <<self.u0_, self.s0_>> = mRNA(self.t_, 0, 0, self.alpha, self.beta, self.gamma)

(* ---------------------------------------------------------------------- *)
(* C10: get_loss, get_loglikelihood, get_likelihood, get_divergence and    *)
(* get_time_assignment, with or without candidate parameters, refit_time   *)
(* and rescale_factor, leave the stored state of the object unchanged,     *)
(* and two calls with the same arguments return the same value.            *)
(* ---------------------------------------------------------------------- *)
\* the object after query k
SelfAfter(k) == IF k < Len(calls) THEN calls[k + 1].self ELSE self

C10_QueriesPure ==
    self # Idle =>
        /\ \A k \in Idx(calls) : SelfAfter(k) = calls[k].self
        /\ \A j, k \in Idx(calls) :
              (calls[j].op = calls[k].op /\ calls[j].q = calls[k].q) => calls[j].r = calls[k].r

\* a time assignment refitted with a rescale factor on the stored
\* parameters, asked twice and answered twice
C10_Witness ==
    /\ self # Idle /\ Len(calls) = 2
    /\ calls[1].op = "get_time_assignmentTrue" /\ calls[2].op = calls[1].op
    /\ calls[1].q.rescale_factor # None /\ calls[1].q.scaling = None
    /\ calls[1].r[1] = "returned" /\ calls[2].r = calls[1].r
    /\ \E i \in Idx(calls[1].r[2][1]) : calls[1].r[2][1][i] > 0

(* ---------------------------------------------------------------------- *)
(* C11: when fewer than 2 cells pass the percentile filter of              *)
(* initialize_weights, the construction reports a failure instead of       *)
(* storing nan-valued std_u, std_s in an object that goes on.              *)
(* ---------------------------------------------------------------------- *)
\* the number of cells of the data (u, s) that pass the filter
Inliers(u, s) == Len(Select(u, initialize_weights(u, s).weights))

C11_FewInliersReported ==
    (fn.op = "__init__" /\ Inliers(fn.u, fn.s) < 2) =>
        (fn.raised /\ self = Idle)

(* ---------------------------------------------------------------------- *)
(* C12: with normalized=True the values that modes 'likelihood' and        *)
(* 'soft_eval' produce for a cell across the reported states are           *)
(* non-negative and sum to 1, also for a cell all of whose values the      *)
(* steady-state correction of 'soft_eval' clips to 0.                      *)
(* ---------------------------------------------------------------------- *)
Normalized(k) ==
    calls[k].r.mode \in {"likelihood", "soft_eval"} /\ ~calls[k].r.raised /\ calls[k].r.normalized
\* the values reported for cell i: every row of 'likelihood', o_ and o of
\* 'soft_eval'
Reported(k, i) ==
    IF calls[k].r.mode = "likelihood"
    THEN Arr([c \in Idx(calls[k].r.res) |-> calls[k].r.res[c][i]])
    ELSE <<calls[k].r.o_[i], calls[k].r.o[i]>>
\* the values of cell i before the normalization
Raw(k, i) == Arr([c \in Idx(calls[k].r.raw) |-> calls[k].r.raw[c][i]])
\* a probability simplex, up to the rounding of one division a value
Simplex(v) ==
    /\ \A c \in Idx(v) : fge(v[c], 0)
    /\ IsNum(SumSeq(v)) /\ 2 * Abs(SumSeq(v) - ONE) <= Len(v)

\* the claim as stated
C12_NormalizedSimplex ==
    \A k \in Idx(calls) :
        Normalized(k) => \A i \in Idx(calls[k].a.u) : Simplex(Reported(k, i))

\* as amended: a simplex for a cell with a positive value; all 0 for a cell
\* whose values are all 0 before the normalization; all nan for a cell with
\* a nan among them
C12_SimplexUnlessAllZero ==
    \A k \in Idx(calls) :
        Normalized(k) =>
            \A i \in Idx(calls[k].a.u) :
                IF \E c \in Idx(Raw(k, i)) : IsNaN(Raw(k, i)[c])
                THEN \A c \in Idx(Reported(k, i)) : IsNaN(Reported(k, i)[c])
                ELSE IF \A c \in Idx(Raw(k, i)) : Raw(k, i)[c] = 0
                THEN \A c \in Idx(Reported(k, i)) : Reported(k, i)[c] = 0
                ELSE Simplex(Reported(k, i))

\* a normalized 'soft_eval' with steady states: every value of one cell is
\* clipped to 0, another cell keeps weight on both curves
C12_Witness ==
    \E k \in Idx(calls) :
        /\ Normalized(k) /\ calls[k].r.mode = "soft_eval" /\ calls[k].a.fit_steady_states
        /\ \E i, j \in Idx(calls[k].a.u) :
            /\ \A c \in Idx(Raw(k, i)) : Raw(k, i)[c] = 0
            /\ calls[k].r.o_[i] = 0 /\ calls[k].r.o[i] = 0
            /\ calls[k].r.o_[j] > 0 /\ calls[k].r.o[j] > 0
            /\ Simplex(Reported(k, j))

(* ---------------------------------------------------------------------- *)
(* C13: for any input array t, compute_dt with clipped=True returns gaps   *)
(* that are all >= 0 and none of which exceeds mean(gap) + 3 sqrt(mean(gap)), *)
(* mean(gap) the mean of the consecutive differences of sorted t; for      *)
(* t = [0, 1, 2, 3] the gaps are [0, 1, 1, 1].                             *)
(* ---------------------------------------------------------------------- *)
DtCalled == fn.op = "compute_dt" /\ fn.clipped
\* the differences of the sorted times of gene g, before any clipping
Gaps(g) == ComputeDtCol(Col(fn.t.v, g), FALSE)
PoissonBound(m) == fadd(m, fmul(3 * ONE, fsqrt(m)))
UnitSteps == <<0, ONE, ONE, ONE>>

\* the claim as stated
C13_GapsWithinMeanBound ==
    DtCalled =>
        /\ ~fn.out.raised
        /\ \A g \in Idx(fn.t.v[1]) : \A i \in Idx(fn.t.v) :
              /\ fge(fn.out.dt[i][g], 0)
              /\ fle(fn.out.dt[i][g], PoissonBound(npmean(Gaps(g))))
        /\ (Col(fn.t.v, 1) = Steps) => Col(fn.out.dt, 1) = UnitSteps

\* as amended: t is a 2-d array (a 1-d array raises); for each gene the gap
\* is the difference clipped to [0, m + 3 sqrt(m)] with
\* m = max(mean(gap), max(t) / len(t), 0); for the column 0, 1, 2, 3 the
\* gaps are 0, 1, 1, 1
C13_GapsWithinPoissonBound ==
    DtCalled =>
        IF fn.t.ndim = 1 THEN fn.out.raised
        ELSE /\ ~fn.out.raised
             /\ \A g \in Idx(fn.t.v[1]) : \A i \in Idx(fn.t.v) :
                  LET m == fmax2(fmax2(npmean(Gaps(g)),
                                       fdiv(MaxSeq(Col(fn.t.v, g)), Len(fn.t.v) * ONE)), 0)
                  IN  /\ fn.out.dt[i][g] = fmin2(Gaps(g)[i], PoissonBound(m))
                      /\ fge(fn.out.dt[i][g], 0)
                      /\ fle(fn.out.dt[i][g], PoissonBound(m))
             /\ (Col(fn.t.v, 1) = Steps) => Col(fn.out.dt, 1) = UnitSteps

\* times that start above 0: a gap is cut down, to more than the bound of
\* the mean gap allows
C13_Witness ==
    /\ DtCalled /\ fn.t.ndim = 2
    /\ \E g \in Idx(fn.t.v[1]) : \E i \in Idx(fn.t.v) :
        /\ fn.out.dt[i][g] < Gaps(g)[i]
        /\ fn.out.dt[i][g] > PoissonBound(npmean(Gaps(g)))

(* ---------------------------------------------------------------------- *)
(* C14: assign_tau without projection yields, for every population of      *)
(* cells, also one without a cell with s > 0, times with 0 <= tau <= t_    *)
(* and 0 <= tau_ <= the largest unclamped tau_ of the cells with s > 0.    *)
(* ---------------------------------------------------------------------- *)
\* tau_ before line 168 clamps it
UnclampedTau_ ==
    tau_inv(fn.u, fn.s, fn.u0_, fn.s0_, 0, fn.beta, Arr([i \in Idx(fn.u) |-> fn.gamma]))
Spliced(i) == fn.s[i] > 0

C14_TausClamped ==
    fn.op = "assign_tau" =>
        /\ ~fn.out.raised
        /\ \A i \in Idx(fn.u) :
            /\ fle(0, fn.out.tau[i]) /\ fle(fn.out.tau[i], fn.t_)
            /\ fle(0, fn.out.tau_[i])
            /\ \E j \in Idx(fn.u) : Spliced(j) /\ fle(fn.out.tau_[i], UnclampedTau_[j])

(* ---------------------------------------------------------------------- *)
(* C15: adjust_increments returns every element minus the sum of the       *)
(* oversized gaps at or below it (gaps of the sorted values, the first     *)
(* from 0, above m + 3 sqrt(m), m = max(mean gap, max(tau)/count, 0)); so  *)
(* a non-negative input gives a non-negative result, the weak order is     *)
(* kept, no gap of the sorted result exceeds the bound and the input       *)
(* array is unchanged.                                                     *)
(* ---------------------------------------------------------------------- *)
Adjusted == fn.op = "adjust_increments"
SortedGaps(x) == LET o == npsort(x) IN [i \in Idx(x) |-> fsub(o[i], IF i = 1 THEN 0 ELSE o[i - 1])]
GapBound(x) ==
    PoissonBound(fmax2(fmax2(fdiv(SumSeq(SortedGaps(x)), Len(x) * ONE),
                             fdiv(MaxSeq(x), Len(x) * ONE)), 0))
Oversized(x) == {i \in Idx(x) : fgt(SortedGaps(x)[i], GapBound(x))}
RemovedBelow(x, v) ==
    SumSeq([i \in Idx(x) |->
        IF i \in Oversized(x) /\ fle(npsort(x)[i], v) THEN SortedGaps(x)[i] ELSE 0])

C15_OversizedGapsRemoved ==
    Adjusted =>
        /\ \A j \in Idx(fn.tau) : fn.out[j] = fn.tau[j] - RemovedBelow(fn.tau, fn.tau[j])
        /\ (\A j \in Idx(fn.tau) : fn.tau[j] >= 0) => \A j \in Idx(fn.tau) : fn.out[j] >= 0
        /\ \A j, k \in Idx(fn.tau) : fn.tau[j] <= fn.tau[k] => fn.out[j] <= fn.out[k]
        /\ \A i \in Idx(fn.tau) : fle(SortedGaps(fn.out)[i], GapBound(fn.tau))
        /\ fn.after = fn.tau

\* two oversized gaps were removed from the largest of three distinct times
C15_Witness ==
    /\ Adjusted
    /\ Cardinality(Oversized(fn.tau)) >= 2
    /\ \E j \in Idx(fn.tau) : fn.out[j] > 0 /\ fn.out[j] < fn.tau[j]

(* ---------------------------------------------------------------------- *)
(* C16: for every cell, the branch o that mode 'assign_timepoints' returns *)
(* with the absolute time t is the branch that vectorize and               *)
(* get_time_assignment(t=...) recover from t and the same t_, and the      *)
(* local time they recover is the local time of the active branch; also    *)
(* for a cell whose induction time is exactly t_ and for a cell matched to *)
(* a steady state.                                                         *)
(* ---------------------------------------------------------------------- *)
\* the local time of the branch a cell was assigned to, as the call leaves it
ActiveTime(r, i) == IF r.o[i] = 1 THEN r.tau[i] ELSE r.tau_[i]
RoundTrip(a, r, i) ==
    /\ GTAGiven1(Idle, r.t, a.t_).o[i] = r.o[i]
    /\ GTAGiven1(Idle, r.t, a.t_).tau[i] = ActiveTime(r, i)
    /\ vectorize(r.t, a.t_, a.alpha, a.beta, a.gamma).tau[i] = ActiveTime(r, i)
    /\ vectorize(r.t, a.t_, a.alpha, a.beta, a.gamma).alpha[i] = a.alpha * r.o[i]
AtSwitch(a, r, i) == r.o[i] = 1 /\ r.t[i] = a.t_

C16_BranchRoundTrip ==
    \A k \in 1..Len(calls) : Assigned(k) =>
        \A i \in Idx(calls[k].r.o) : RoundTrip(calls[k].a, calls[k].r, i)

(* ---------------------------------------------------------------------- *)
(* C17: for non-negative times and a root cell, root_time gives the root   *)
(* cell the time 0, a cell with t >= t_root the time t - t_root and a cell *)
(* with t < t_root the time t + the largest after-root offset, so that     *)
(* every before-root cell is at or after every after-root cell; its second *)
(* value is the wrap point, the smallest rooted time of the before-root    *)
(* cells, whenever a cell lies before the root.                            *)
(* ---------------------------------------------------------------------- *)
Rooted == fn.op = "root_time"
Genes == IF fn.t.ndim = 1 THEN {1} ELSE Idx(fn.t.v[1])
TimesOf(g) == IF fn.t.ndim = 1 THEN fn.t.v ELSE Col(fn.t.v, g)
RootedOf(g) == IF fn.t.ndim = 1 THEN fn.out.t_rooted ELSE Col(fn.out.t_rooted, g)
SwitchOf(g) == IF fn.t.ndim = 1 THEN fn.out.t_switch ELSE fn.out.t_switch[g]
RootOf(g) == TimesOf(g)[fn.root + 1]
Before(g) == {i \in Idx(TimesOf(g)) : TimesOf(g)[i] < RootOf(g)}
After(g) == Idx(TimesOf(g)) \ Before(g)
NonNegative == \A g \in Genes : \A i \in Idx(TimesOf(g)) : TimesOf(g)[i] >= 0
\* the rooted times, as stated
RootedTimes(g) ==
    /\ RootedOf(g)[fn.root + 1] = 0
    /\ \A i \in After(g) : RootedOf(g)[i] = TimesOf(g)[i] - RootOf(g)
    /\ \A i \in Before(g) : \E j \in After(g) :
         /\ RootedOf(g)[i] = TimesOf(g)[i] + (TimesOf(g)[j] - RootOf(g))
         /\ \A k \in After(g) : TimesOf(g)[k] <= TimesOf(g)[j]
    /\ \A i \in Before(g), j \in After(g) : RootedOf(g)[i] >= RootedOf(g)[j]
\* the wrap point, as stated
WrapPoint(g) ==
    Before(g) # {} =>
        /\ \E i \in Before(g) : SwitchOf(g) = RootedOf(g)[i]
        /\ \A i \in Before(g) : SwitchOf(g) <= RootedOf(g)[i]

C17_RootedTimesAndWrapPoint ==
    (Rooted /\ NonNegative) => \A g \in Genes : RootedTimes(g) /\ WrapPoint(g)

=============================================================================
